---- MODULE Spec2Model ----
(***************************************************************************)
(* Multi-branch orchestration engine: retry_with_backoff (utils.py),       *)
(* BranchOperations.fetch_branch (branch_ops.py), ReportGenerator          *)
(* .create_report (reporting.py) and MultibranchOrchestrator               *)
(* (orchestrator.py).                                                      *)
(*                                                                         *)
(* SpecRetry runs one retry_with_backoff call, made directly or through    *)
(* fetch_branch, one loop iteration per step.  SpecBranchOps runs one      *)
(* BranchOperations method call, one external command per step.  SpecNames *)
(* applies validate_branch_name to one name.  SpecWrap is an orchestrator  *)
(* called through sync_all_branches and fetch_all_branches only.           *)
(***************************************************************************)
EXTENDS Integers, Sequences, FiniteSets, TLC

\* ---------------------------------------------------------------- bounds
\* Largest max_attempts / retry_attempts tried by SpecRetry.
MaxAttempts == 4
\* Largest initial_delay tried by SpecRetry (seconds, whole numbers).
MaxDelay == 2
\* Largest exponential_base tried by SpecRetry.
MaxBase == 3
\* Largest Config.retry_attempts tried by Spec.
MaxRetryAttempts == 2
\* Largest Config.max_workers tried by Spec.
MaxWorkers == 2
\* Workflow calls made on one orchestrator in Spec when it runs its
\* repositories one after another (see RunLimit).
MaxRuns == 2
\* Failures the environment produces during the life of one orchestrator in
\* Spec: external invocations that fail or raise, status queries that raise.
MaxFaults == 2
\* Longest branch list handed to fetch_all_branches.
MaxBatch == 3
\* Most pieces a name handed to validate_branch_name is put together from.
MaxParts == 3

\* Which repositories' paths are not git repositories, in the cases tried.
NotGitChoices == {{}, {"/srv/b"}}

VARIABLES
    rcfg,       \* arguments of the retry_with_backoff call under test
    retry,      \* locals of that call: attempt, delay, what it returned/raised
    outcomes,   \* what func did on each invocation so far, in order
    fres,       \* what fetch_branch handed back to its caller
    batch,      \* locals of the MultiBranchOperations.fetch_all_branches call
    bo,         \* locals of the BranchOperations method call under test
    cfg,        \* Config of the orchestrator, and which paths are git repositories
    errors,     \* MultibranchOrchestrator.errors (self.errors)
    run,        \* locals of the execute_workflow / custom_workflow call in progress
    tasks,      \* per configured repository: locals of its workflow task
    report,     \* the Report returned by the latest call, if it returned one
    nruns,      \* number of workflow calls made on this orchestrator
    faults      \* failures the environment has produced so far

retryVars == <<rcfg, retry, outcomes, fres, batch, bo>>

orchVars == <<cfg, errors, run, tasks, report, nruns, faults>>

vars ==
    <<rcfg, retry, outcomes, fres, batch, bo, cfg, errors, run, tasks, report,
      nruns, faults>>

\* ------------------------------------------------- utils.retry_with_backoff
\* What one invocation of func can do: return a successful CommandResult,
\* return a failed CommandResult, raise, or return something that is not a
\* CommandResult.
Outcomes == {"ok", "fail", "raise", "other"}

\* Loop entry (utils.py:147-149): delay = initial_delay, attempt = 1.  With
\* max_attempts < 1 the range is empty and control falls to line 186.
RetryCall(max, init, base) ==
    [ status      |-> IF max >= 1 THEN "running" ELSE "raised",
      exc         |-> IF max >= 1 THEN "none" ELSE "RuntimeError",
      max         |-> max,
      base        |-> base,
      attempt     |-> 1,
      delay       |-> init,
      invocations |-> 0,
      sleeps      |-> <<>>,
      success     |-> FALSE,
      isCmd       |-> FALSE ]

\* A backoff that sleeps the same delay every time, for comparison with
\* Backoff below.
BackoffFixed(st) ==
    [st EXCEPT !.sleeps = Append(@, st.delay),
               !.attempt = @ + 1]

\* time.sleep(delay); delay *= exponential_base; next attempt
\* (utils.py:166-168 and 179-180).
Backoff(st) ==
    [st EXCEPT !.sleeps = Append(@, st.delay),
               !.delay = @ * st.base,
               !.attempt = @ + 1]

\* A loop iteration that lets an exception out at once instead of retrying,
\* for comparison with RetryAttempt below.
RetryAttemptRaising(st, out) ==
    LET called == [st EXCEPT !.invocations = @ + 1] IN
    CASE out = "ok" ->
            [called EXCEPT !.status = "returned", !.success = TRUE, !.isCmd = TRUE]
      [] out = "fail" ->
            IF st.attempt < st.max
            THEN Backoff(called)
            ELSE [called EXCEPT !.status = "returned", !.success = FALSE,
                                !.isCmd = TRUE]
      [] out = "other" ->
            [called EXCEPT !.status = "returned", !.success = FALSE,
                           !.isCmd = FALSE]
      [] OTHER -> [called EXCEPT !.status = "raised", !.exc = "action"]

\* One iteration of the for loop (utils.py:149-183): invoke func once and
\* act on what it did.
RetryAttempt(st, out) ==
    LET called == [st EXCEPT !.invocations = @ + 1] IN
    CASE out = "ok" ->
            [called EXCEPT !.status = "returned", !.success = TRUE, !.isCmd = TRUE]
      [] out = "fail" ->
            IF st.attempt < st.max
            THEN Backoff(called)
            ELSE [called EXCEPT !.status = "returned", !.success = FALSE,
                                !.isCmd = TRUE]
      [] out = "other" ->
            [called EXCEPT !.status = "returned", !.success = FALSE,
                           !.isCmd = FALSE]
      [] OTHER ->  \* "raise"
            IF st.attempt < st.max
            THEN Backoff(called)
            ELSE [called EXCEPT !.status = "raised", !.exc = "action"]

\* --------------------------------------------- BranchOperations.fetch_branch
\* initial_delay passed by fetch_branch, pull_branch and push_branch.
FetchInitialDelay == 2
\* Default exponential_base of retry_with_backoff, which they leave alone.
DefaultBase == 2

\* fetch_branch after retry_with_backoff came back (branch_ops.py:282-288):
\* an OperationResult carrying result.success, or the exception passed on.
FetchResult(st) ==
    IF st.status = "raised"
    THEN [kind |-> "exception", success |-> FALSE, exc |-> st.exc]
    ELSE [kind |-> "OperationResult", success |-> st.success, exc |-> "none"]

NoResult == [kind |-> "none", success |-> FALSE, exc |-> "none"]

\* ---------------------------------------------------- utils.execute_command
\* What subprocess.run can do: finish with exit status 0, finish with another
\* exit status, raise TimeoutExpired once the timeout has passed, or raise
\* another exception (no such executable, no such directory).
SubprocessOutcomes == {"exit 0", "exit 1", "TimeoutExpired", "OSError"}

\* An execute_command without its handler for TimeoutExpired, which then
\* reaches the caller, for comparison with execute_command below.
execute_command_uncaught(sub) ==
    CASE sub = "exit 0" ->
            [kind |-> "CommandResult", success |-> TRUE, stderr |-> "stderr",
             returncode |-> 0]
      [] sub = "exit 1" ->
            [kind |-> "CommandResult", success |-> FALSE, stderr |-> "stderr",
             returncode |-> 1]
      [] sub = "TimeoutExpired" ->
            [kind |-> "exception", success |-> FALSE, stderr |-> "none",
             returncode |-> 0]
      [] OTHER ->
            [kind |-> "CommandResult", success |-> FALSE, stderr |-> "str(e)",
             returncode |-> -1]

\* execute_command (utils.py:40-87), and execute_git_command
\* (utils.py:89-118), which returns its result unchanged: the CommandResult
\* built from what subprocess.run did.
execute_command(sub) ==
    CASE sub = "exit 0" ->
            [kind |-> "CommandResult", success |-> TRUE, stderr |-> "stderr",
             returncode |-> 0]
      [] sub = "exit 1" ->
            [kind |-> "CommandResult", success |-> FALSE, stderr |-> "stderr",
             returncode |-> 1]
      [] sub = "TimeoutExpired" ->
            [kind |-> "CommandResult", success |-> FALSE,
             stderr |-> "Command timed out after", returncode |-> -1]
      [] OTHER ->
            [kind |-> "CommandResult", success |-> FALSE, stderr |-> "str(e)",
             returncode |-> -1]

\* What retry_with_backoff sees of an invocation of func (utils.py:151-171):
\* a CommandResult with success set, one without, or an exception.
Seen(res) ==
    IF res.kind = "exception" THEN "raise"
    ELSE IF res.success THEN "ok" ELSE "fail"

\* ------------------------------------------------------------ config.Config
\* The configured repositories, in configuration order, each with its
\* configured branches in order (Config.repositories, RepositoryConfig).
\* validate asks that every path exists, not that paths or names differ
\* (config.py:318-320): r3 is a second entry for the path of r1.
Repositories ==
    << [name |-> "r1", path |-> "/srv/a", branches |-> <<"main", "dev">>],
       [name |-> "r2", path |-> "/srv/b", branches |-> <<"main">>],
       [name |-> "r3", path |-> "/srv/a", branches |-> <<"main">>] >>

RepoIdx == 1..Len(Repositories)

\* Default of Config.retry_delay (config.py:147), in seconds.
DefaultRetryDelay == 2

\* Config.repositories as positions in Repositories, when every one of them
\* is configured.
AllRepos == [i \in RepoIdx |-> i]

\* A validation that does not look at max_workers, for comparison with
\* validate below.
validate_lenient(c) ==
    (IF c.repositories = <<>> THEN <<"At least one repository must be configured">>
     ELSE <<>>)
    \o [k \in 1..Len(SelectSeq(c.repositories,
                                LAMBDA i : Repositories[i].path \in c.missing))
          |-> "Repository path does not exist"]
    \o (IF c.retry_attempts < 0 THEN <<"retry_attempts cannot be negative">>
        ELSE <<>>)

\* Config.validate (config.py:308-330): the list of validation errors, one
\* for an empty repository list, one per repository whose path does not
\* exist (missing holds those paths), one for max_workers < 1, one for a
\* negative retry_attempts.
validate(c) ==
    (IF c.repositories = <<>> THEN <<"At least one repository must be configured">>
     ELSE <<>>)
    \o [k \in 1..Len(SelectSeq(c.repositories,
                                LAMBDA i : Repositories[i].path \in c.missing))
          |-> "Repository path does not exist"]
    \o (IF c.max_workers < 1 THEN <<"max_workers must be at least 1">> ELSE <<>>)
    \o (IF c.retry_attempts < 0 THEN <<"retry_attempts cannot be negative">>
        ELSE <<>>)

\* Configurations that pass Config.validate (config.py:308-330): at least one
\* repository, every path exists, max_workers >= 1, retry_attempts >= 0.
\* validate does not ask whether a path is a git repository: notGit holds
\* the paths that exist without being one.  The values tried
\* are the smallest and the largest: one worker or MaxWorkers; no attempt,
\* one attempt or MaxRetryAttempts.  max_workers is read in parallel mode
\* only, so one value stands for all when parallel_operations is off.
\* retry_delay is read by no code of the orchestrator, so its default stands
\* for all here.
Configs ==
    { c \in [ parallel_operations : BOOLEAN, max_workers : {1, MaxWorkers},
              retry_attempts : {0, 1, MaxRetryAttempts},
              retry_delay : {DefaultRetryDelay},
              notGit : NotGitChoices,
              repositories : {AllRepos}, missing : {{}} ] :
        c.parallel_operations \/ c.max_workers = 1 }

\* How many workflow calls are followed on one orchestrator: MaxRuns where
\* calls run one repository at a time, a single call where the pool is used.
\* What a call leaves behind for the next one (self.errors, the Report) does
\* not depend on the mode.
RunLimit == IF cfg.parallel_operations THEN 1 ELSE MaxRuns

\* utils.is_git_repository(path) (utils.py:279-290).
is_git_repository(i) == Repositories[i].path \notin cfg.notGit

\* ---------------------------------------------------------- request inputs
\* An optional list of names: absent (None) or a list, kept as a set since
\* only membership is asked of it.
NoFilter == [given |-> FALSE, names |-> {}]
Only(S) == [given |-> TRUE, names |-> S]

\* Python truth value of an optional list: None and [] are both false.
Truthy(f) == f.given /\ f.names # {}

RetryOps == {"fetch", "pull", "push"}
PlainOps == {"create", "switch", "merge"}
KnownOps == RetryOps \cup PlainOps

\* A resolution that takes an empty list for a filter that lets nothing
\* through, for comparison with TargetRepos below.
TargetReposStrict(rf) ==
    SelectSeq([i \in RepoIdx |-> i],
              LAMBDA i : ~rf.given \/ Repositories[i].name \in rf.names)

\* target_repos (orchestrator.py:250-258 and 396-404), as positions in
\* Config.repositories.
TargetRepos(rf) ==
    SelectSeq([i \in RepoIdx |-> i],
              LAMBDA i : ~Truthy(rf) \/ Repositories[i].name \in rf.names)

\* target_branches (orchestrator.py:157-166 and 408-415).
TargetBranches(i, bf) ==
    SelectSeq(Repositories[i].branches,
              LAMBDA b : ~Truthy(bf) \/ b \in bf.names)

\* ------------------------------------------------- reporting.create_report
RECURSIVE SumOps(_)
SumOps(brs) ==
    IF brs = <<>> THEN 0 ELSE Len(Head(brs).operations) + SumOps(Tail(brs))

RECURSIVE CountOk(_)
CountOk(ops) ==
    IF ops = <<>> THEN 0
    ELSE (IF Head(ops).success THEN 1 ELSE 0) + CountOk(Tail(ops))

\* A success count that stops at the first change of repository, for
\* comparison with SumOk below.
RECURSIVE SumOkLeading(_)
SumOkLeading(brs) ==
    IF brs = <<>> THEN 0
    ELSE CountOk(Head(brs).operations)
           + (IF Len(brs) > 1 /\ brs[2].repository = brs[1].repository
              THEN SumOkLeading(Tail(brs)) ELSE 0)

RECURSIVE SumOk(_)
SumOk(brs) ==
    IF brs = <<>> THEN 0 ELSE CountOk(Head(brs).operations) + SumOk(Tail(brs))

\* A report whose success count is taken per branch instead of per operation,
\* for comparison with create_report below.
create_report_per_branch(brs, errs) ==
    [ summary |->
        [ total_operations      |-> SumOps(brs),
          successful_operations |->
              Cardinality({k \in 1..Len(brs) : brs[k].success}),
          failed_operations     |->
              SumOps(brs) - Cardinality({k \in 1..Len(brs) : brs[k].success}),
          total_branches        |-> Len(brs),
          total_repositories    |->
              Cardinality({brs[k].repository : k \in 1..Len(brs)}) ],
      branch_reports |-> brs,
      errors         |-> errs,
      aliased        |-> errs # <<>> ]

\* ReportGenerator.create_report (reporting.py:116-142).  report.errors is
\* `errors or []`: the orchestrator's own list object when that list is not
\* empty, a fresh empty list otherwise.
create_report(brs, errs) ==
    [ summary |->
        [ total_operations      |-> SumOps(brs),
          successful_operations |-> SumOk(brs),
          failed_operations     |-> SumOps(brs) - SumOk(brs),
          total_branches        |-> Len(brs),
          total_repositories    |->
              Cardinality({brs[k].repository : k \in 1..Len(brs)}) ],
      branch_reports |-> brs,
      errors         |-> errs,
      aliased        |-> errs # <<>> ]

NoReport == [summary |-> "none"]

\* A rate computed without looking at total_operations first, for comparison
\* with success_rate below.
success_rate_unguarded(summary) ==
    [ num |-> summary.successful_operations * 100,
      den |-> summary.total_operations ]

\* ReportSummary.success_rate (reporting.py:45-50), as the fraction num/den:
\* 0.0 when total_operations is 0, else
\* successful_operations / total_operations * 100.
success_rate(summary) ==
    IF summary.total_operations = 0
    THEN [num |-> 0, den |-> 1]
    ELSE [ num |-> summary.successful_operations * 100,
           den |-> summary.total_operations ]

\* ----------------------------------------------- orchestrator: one branch
IdleRetry ==
    [ status |-> "idle", exc |-> "none", max |-> 0, base |-> 0, attempt |-> 0,
      delay |-> 0, invocations |-> 0, sleeps |-> <<>>, success |-> FALSE,
      isCmd |-> FALSE ]

IdleTask ==
    [ st |-> "idle", bi |-> 0, oi |-> 0, rs |-> IdleRetry, opres |-> <<>>,
      reports |-> <<>>, raised |-> FALSE ]

\* An OperationResult (branch_ops.py:54-62); attempts counts the invocations
\* retry_with_backoff made for it (0 when the operation did not go through it).
\* error is None on success and result.stderr on failure (branch_ops.py:287).
OperationResult(op, ok, n) ==
    [ operation |-> op, success |-> ok, attempts |-> n,
      error |-> IF ok THEN "none" ELSE "stderr" ]

\* The operation field of the result a BranchOperations method builds:
\* merge_branch writes "merge (<strategy>)" (branch_ops.py:376), strategy
\* being BranchConfig.merge_strategy, "merge" unless configured otherwise;
\* the others write their own name.
ResultName(op) == IF op = "merge" THEN "merge (merge)" ELSE op

\* A test that takes the operation for finished after its first invocation,
\* for comparison with OpFinished below.
OpFinishedAtOnce(rs) == rs.status # "idle"

\* The retry loop of the operation in flight has come back.
OpFinished(rs) == rs.status \in {"returned", "raised"}

\* A loop that breaks out at the first failed operation, for comparison with
\* Complete below.
CompleteOrBreak(t, res) ==
    [t EXCEPT !.opres = Append(@, res),
              !.oi = IF res.success THEN @ + 1 ELSE Len(run.ops) + 1,
              !.rs = IdleRetry]

\* operation_results.append(result) and on to the next operation
\* (orchestrator.py:183-194).
Complete(t, res) ==
    [t EXCEPT !.opres = Append(@, res), !.oi = @ + 1, !.rs = IdleRetry]

\* One external invocation made by a BranchOperations method called for the
\* operation in flight.  create/switch/merge (branch_ops.py:172-256, 332-379)
\* run their command once; fetch/pull/push (branch_ops.py:258-330, 381-429)
\* go through retry_with_backoff with retry_attempts and hand back what
\* FetchResult makes of it.  done: the method has come back; exc: by raising.
BranchOp(t, op, out, attempts) ==
    IF op \in PlainOps
    THEN [ done |-> TRUE, exc |-> out = "raise", rs |-> IdleRetry,
           res |-> OperationResult(ResultName(op), out = "ok", 0) ]
    ELSE
        LET cur == IF t.rs.status = "idle"
                   THEN RetryCall(attempts, FetchInitialDelay, DefaultBase)
                   ELSE t.rs
            nxt == IF cur.status = "running" THEN RetryAttempt(cur, out) ELSE cur
            fr  == FetchResult(nxt)
        IN  [ done |-> OpFinished(nxt), exc |-> fr.kind = "exception", rs |-> nxt,
              res |-> OperationResult(ResultName(op), fr.success, nxt.invocations) ]

\* An execute_operation_on_branch without its except clause: the exception
\* of the branch operation leaves it, for comparison with the one below.
execute_operation_uncaught(t, op, out, attempts) ==
    IF op \notin KnownOps
    THEN Complete(t, [OperationResult(op, FALSE, 0) EXCEPT !.error = "not supported"])
    ELSE
        LET r == BranchOp(t, op, out, attempts)
        IN  IF ~r.done THEN [t EXCEPT !.rs = r.rs]
            ELSE IF r.exc THEN [t EXCEPT !.st = "raised", !.rs = r.rs]
                 ELSE Complete(t, r.res)

\* execute_operation_on_branch (orchestrator.py:83-136), one external
\* invocation at a time.  An unknown name gives a failed result at once; an
\* exception out of the branch operation is caught and becomes a failed
\* result whose error is the exception text; otherwise the operation's own result is returned.
execute_operation_on_branch(t, op, out, attempts) ==
    IF op \notin KnownOps
    THEN Complete(t, [OperationResult(op, FALSE, 0) EXCEPT !.error = "not supported"])
    ELSE
        LET r == BranchOp(t, op, out, attempts)
        IN  IF ~r.done THEN [t EXCEPT !.rs = r.rs]
            ELSE IF r.exc
                 THEN Complete(t, [OperationResult(op, FALSE, r.res.attempts)
                                       EXCEPT !.error = "str(e)"])
                 ELSE Complete(t, r.res)

\* any() in place of all(), for comparison with AllSucceeded below.
AnySucceeded(ops) == \E k \in 1..Len(ops) : ops[k].success

\* all(op.success for op in operation_results) (orchestrator.py:221, 431).
AllSucceeded(ops) == \A k \in 1..Len(ops) : ops[k].success

\* A BranchReport that counts a failed status query against the branch, for
\* comparison with BranchReport below.
BranchReportStrict(i, b, ops, statusOk) ==
    [ branch_name |-> b, repository |-> Repositories[i].name,
      operations |-> ops, status |-> IF statusOk THEN "status" ELSE "empty",
      success |-> statusOk /\ \A k \in 1..Len(ops) : ops[k].success ]

\* BranchReport (orchestrator.py:216-222); status is {} when the status
\* query raised.
BranchReport(i, b, ops, statusOk) ==
    [ branch_name |-> b, repository |-> Repositories[i].name,
      operations |-> ops, status |-> IF statusOk THEN "status" ELSE "empty",
      success |-> AllSucceeded(ops) ]

\* Run-level error strings.
NoReposError == [kind |-> "No repositories configured or specified", name |-> ""]
StatusError(b) == [kind |-> "Failed to get status for", name |-> b]
RepoError(i) == [kind |-> "Repository failed", name |-> Repositories[i].name]
CustomError(b) == [kind |-> "Custom workflow failed for", name |-> b]

\* ------------------------------------------------ orchestrator: one call
\* No call in progress on a constructed orchestrator.  outdir tells that the
\* report directory exists, which ReportGenerator.__init__ sees to
\* (reporting.py:93-95).
IdleRun ==
    [ phase |-> "idle", entry |-> "none", ops |-> <<>>, rf |-> NoFilter,
      bf |-> NoFilter, targets |-> <<>>, parallel |-> FALSE, acc |-> <<>>,
      errs0 |-> 0, prior |-> "none", via |-> "none", outdir |-> TRUE ]

\* MultibranchOrchestrator.__init__ returned: there is an object whose
\* methods can be called.
Constructed == run.phase \notin {"unconstructed", "ValueError"}

InSeq(x, s) == \E k \in 1..Len(s) : s[k] = x

\* Targets that come before i in target_repos.
Before(i) == {j \in RepoIdx : InSeq(j, run.targets) /\ j < i}

\* Repository tasks a pool worker is busy with.
Busy == {j \in RepoIdx : tasks[j].st = "running"}

\* What an external command, or the exception-raising code around it, can do
\* when an operation invokes it.
CommandOutcomes == {"ok", "fail", "raise"}

\* What the environment may do next for operation op: nothing can fail for a
\* name that reaches no command, and no more than MaxFaults failures occur.
Possible(op) ==
    IF op \notin KnownOps \/ faults >= MaxFaults THEN {"ok"} ELSE CommandOutcomes

StatusPossible == IF faults >= MaxFaults THEN {TRUE} ELSE BOOLEAN

Fault(failed) == IF failed THEN faults + 1 ELSE faults

\* Calls tried: operation lists and the two optional filters.
OpLists == {<<>>, <<"fetch", "pull">>, <<"bogus">>}
RepoFilters == {NoFilter, Only({"r3"}), Only({"zz"})}
BranchFilters == {NoFilter, Only({"dev"})}

WorkflowRequests ==
    { [entry |-> "execute_workflow", via |-> "direct", ops |-> o, rf |-> r,
       bf |-> b] :
        o \in OpLists, r \in RepoFilters, b \in BranchFilters }

\* The per-branch procedures tried are those of the shape of
\* my_custom_workflow: call BranchOperations methods in a fixed order and
\* return their results.
ProcedureOps == {<<>>, <<"fetch", "merge">>}

CustomRequests ==
    { [entry |-> "custom_workflow", via |-> "direct", ops |-> o, rf |-> r,
       bf |-> b] :
        o \in ProcedureOps, r \in RepoFilters, b \in BranchFilters }

\* A frame that goes to the pool whenever parallel_operations is set, however
\* many repositories are targeted, for comparison with Begun below.
BegunPooled(req, targets, par) ==
    [ phase |-> "running", entry |-> req.entry, ops |-> req.ops, rf |-> req.rf,
      bf |-> req.bf, targets |-> targets,
      parallel |-> cfg.parallel_operations /\ req.entry = "execute_workflow",
      acc |-> <<>>, errs0 |-> Len(errors),
      prior |-> IF report = NoReport THEN "none"
                ELSE IF report.aliased THEN "shared" ELSE "own",
      via |-> req.via, outdir |-> run.outdir ]

\* The frame of a call that has resolved its targets.  errs0 is the length
\* self.errors had when the call began.  via is the public method the caller
\* used: execute_workflow or custom_workflow itself ("direct"), or a
\* convenience wrapper.  prior tells what the Report of the
\* call before holds as its errors: "shared", self.errors itself
\* (reporting.py:140, `errors or []` with a non-empty list); "own", a fresh
\* empty list; "none", no Report was returned.
Begun(req, targets, par) ==
    [ phase |-> "running", entry |-> req.entry, ops |-> req.ops, rf |-> req.rf,
      bf |-> req.bf, targets |-> targets, parallel |-> par, acc |-> <<>>,
      errs0 |-> Len(errors),
      prior |-> IF report = NoReport THEN "none"
                ELSE IF report.aliased THEN "shared" ELSE "own",
      via |-> req.via, outdir |-> run.outdir ]

Queued(targets) ==
    [i \in RepoIdx |->
        IF InSeq(i, targets) THEN [IdleTask EXCEPT !.st = "queued"] ELSE IdleTask]

\* execute_workflow up to dispatch (orchestrator.py:247-284, 300-302): resolve
\* the target repositories; with none, record the error and return a Report
\* at once; otherwise choose the mode and hand every target its task.
execute_workflow(req) ==
    /\ Constructed
    /\ run.phase # "running"
    /\ nruns < RunLimit
    /\ LET targets == TargetRepos(req.rf) IN
        IF targets = <<>>
        THEN /\ errors' = Append(errors, NoReposError)
             /\ report' = create_report(<<>>, errors')
             /\ run' = [Begun(req, targets, FALSE) EXCEPT !.phase = "returned"]
             /\ tasks' = [i \in RepoIdx |-> IdleTask]
        ELSE /\ run' = Begun(req, targets,
                             cfg.parallel_operations /\ Len(targets) > 1)
             /\ tasks' = Queued(targets)
             /\ report' = NoReport
             /\ UNCHANGED errors
    /\ nruns' = nruns + 1
    /\ UNCHANGED <<cfg, faults, retryVars>>

\* A caller invokes execute_workflow itself.
StartWorkflow == \E req \in WorkflowRequests : execute_workflow(req)

\* The operation lists of the two convenience wrappers
\* (orchestrator.py:350, 369).
SyncAllOpsReversed == <<"pull", "fetch">>
SyncAllOps == <<"fetch", "pull">>
FetchAllOps == <<"fetch">>

\* sync_all_branches(repositories) (orchestrator.py:333-352): the value of
\* execute_workflow(operations=["fetch", "pull"], repositories=repositories);
\* branches keeps its default, None.
sync_all_branches ==
    \E rf \in RepoFilters :
        execute_workflow([entry |-> "execute_workflow", via |-> "sync_all_branches",
                          ops |-> SyncAllOps, rf |-> rf, bf |-> NoFilter])

\* fetch_all_branches(repositories) (orchestrator.py:354-371): the value of
\* execute_workflow(operations=["fetch"], repositories=repositories).
fetch_all_branches ==
    \E rf \in RepoFilters :
        execute_workflow([entry |-> "execute_workflow", via |-> "fetch_all_branches",
                          ops |-> FetchAllOps, rf |-> rf, bf |-> NoFilter])

\* A pool that starts every submitted task at once, whatever max_workers is,
\* for comparison with TaskBegin below.
TaskBeginUnbounded(i) ==
    /\ run.phase = "running"
    /\ run.entry = "execute_workflow"
    /\ tasks[i].st = "queued"
    /\ IF run.parallel
       THEN \A j \in Before(i) : tasks[j].st # "queued"
       ELSE \A j \in Before(i) : tasks[j].st = "collected"
    /\ tasks' = [tasks EXCEPT ![i] =
          IF TargetBranches(i, run.bf) = <<>> THEN [@ EXCEPT !.st = "returned"]
          ELSE IF ~is_git_repository(i) THEN [@ EXCEPT !.st = "raised"]
          ELSE [@ EXCEPT !.st = "running", !.bi = 1, !.oi = 1]]
    /\ UNCHANGED <<cfg, errors, run, report, nruns, faults, retryVars>>

\* execute_workflow_on_repository up to the branch loop
\* (orchestrator.py:155-180).  In parallel mode a pool worker takes the
\* oldest queued task when fewer than max_workers are busy; in sequential
\* mode the calling thread takes the next target once the one before is done
\* with.  No target branch: return [] before anything is built.  Otherwise
\* MultiBranchOperations builds a BranchOperations, which raises when the
\* path is not a git repository (branch_ops.py:85-86).
TaskBegin(i) ==
    /\ run.phase = "running"
    /\ run.entry = "execute_workflow"
    /\ tasks[i].st = "queued"
    /\ IF run.parallel
       THEN /\ \A j \in Before(i) : tasks[j].st # "queued"
            /\ Cardinality(Busy) < cfg.max_workers
       ELSE \A j \in Before(i) : tasks[j].st = "collected"
    /\ tasks' = [tasks EXCEPT ![i] =
          IF TargetBranches(i, run.bf) = <<>> THEN [@ EXCEPT !.st = "returned"]
          ELSE IF ~is_git_repository(i) THEN [@ EXCEPT !.st = "raised"]
          ELSE [@ EXCEPT !.st = "running", !.bi = 1, !.oi = 1]]
    /\ UNCHANGED <<cfg, errors, run, report, nruns, faults, retryVars>>

\* The operation loop of one branch (orchestrator.py:183-201): the operation
\* at position oi makes its next external invocation.
TaskOperation(i) ==
    /\ run.phase = "running"
    /\ run.entry = "execute_workflow"
    /\ tasks[i].st = "running"
    /\ tasks[i].oi <= Len(run.ops)
    /\ \E out \in Possible(run.ops[tasks[i].oi]) :
        /\ tasks' = [tasks EXCEPT ![i] =
              execute_operation_on_branch(@, run.ops[@.oi], out, cfg.retry_attempts)]
        /\ faults' = Fault(out # "ok")
    /\ UNCHANGED <<cfg, errors, run, report, nruns, retryVars>>

\* A status query that does not wait for the operations of the branch, for
\* comparison with TaskStatus below.
TaskStatusEarly(i) ==
    /\ run.phase = "running"
    /\ run.entry = "execute_workflow"
    /\ tasks[i].st = "running"
    /\ tasks[i].rs = IdleRetry
    /\ \E ok \in StatusPossible :
        LET t    == tasks[i]
            tb   == TargetBranches(i, run.bf)
            reps == Append(t.reports, BranchReport(i, tb[t.bi], t.opres, ok))
        IN  /\ faults' = Fault(~ok)
            /\ errors' = IF ok THEN errors
                         ELSE Append(errors, StatusError(tb[t.bi]))
            /\ tasks' = [tasks EXCEPT ![i] =
                  IF t.bi = Len(tb)
                  THEN [IdleTask EXCEPT !.st = "returned", !.reports = reps]
                  ELSE [t EXCEPT !.bi = @ + 1, !.oi = 1, !.opres = <<>>,
                                 !.reports = reps]]
    /\ UNCHANGED <<cfg, run, report, nruns, retryVars>>

\* After the last operation of a branch (orchestrator.py:203-225): query the
\* status, recording an error if that raises, append the BranchReport, and
\* go on to the next branch or return the list.
TaskStatus(i) ==
    /\ run.phase = "running"
    /\ run.entry = "execute_workflow"
    /\ tasks[i].st = "running"
    /\ tasks[i].oi > Len(run.ops)
    /\ \E ok \in StatusPossible :
        LET t    == tasks[i]
            tb   == TargetBranches(i, run.bf)
            reps == Append(t.reports, BranchReport(i, tb[t.bi], t.opres, ok))
        IN  /\ faults' = Fault(~ok)
            /\ errors' = IF ok THEN errors
                         ELSE Append(errors, StatusError(tb[t.bi]))
            /\ tasks' = [tasks EXCEPT ![i] =
                  IF t.bi = Len(tb)
                  THEN [IdleTask EXCEPT !.st = "returned", !.reports = reps]
                  ELSE [t EXCEPT !.bi = @ + 1, !.oi = 1, !.opres = <<>>,
                                 !.reports = reps]]
    /\ UNCHANGED <<cfg, run, report, nruns, retryVars>>

\* A collector that keeps only the branch reports of the task it took last,
\* for comparison with Collect below.
CollectLast(i) ==
    /\ run.phase = "running"
    /\ run.entry = "execute_workflow"
    /\ tasks[i].st \in {"returned", "raised"}
    /\ IF tasks[i].st = "returned"
       THEN /\ run' = [run EXCEPT !.acc = tasks[i].reports]
            /\ UNCHANGED errors
       ELSE /\ errors' = Append(errors, RepoError(i))
            /\ UNCHANGED run
    /\ tasks' = [tasks EXCEPT ![i] =
          [IdleTask EXCEPT !.st = "collected", !.raised = (tasks[i].st = "raised"),
                           !.reports = tasks[i].reports]]
    /\ UNCHANGED <<cfg, report, nruns, faults, retryVars>>

\* The calling thread takes the outcome of a finished repository task
\* (orchestrator.py:286-298 in parallel mode, 303-313 in sequential mode): its
\* branch reports extend the accumulator, or its exception becomes one error.
Collect(i) ==
    /\ run.phase = "running"
    /\ run.entry = "execute_workflow"
    /\ tasks[i].st \in {"returned", "raised"}
    /\ IF tasks[i].st = "returned"
       THEN /\ run' = [run EXCEPT !.acc = @ \o tasks[i].reports]
            /\ UNCHANGED errors
       ELSE /\ errors' = Append(errors, RepoError(i))
            /\ UNCHANGED run
    /\ tasks' = [tasks EXCEPT ![i] =
          [IdleTask EXCEPT !.st = "collected", !.raised = (tasks[i].st = "raised"),
                           !.reports = tasks[i].reports]]
    /\ UNCHANGED <<cfg, report, nruns, faults, retryVars>>

\* A pool left as soon as every task has been started, without waiting for
\* the tasks to end, for comparison with AllCollected below.
AllStarted == \A k \in 1..Len(run.targets) : tasks[run.targets[k]].st # "queued"

\* Every target has been taken by the collecting loop: the with block of the
\* pool and the as_completed loop are over (orchestrator.py:275-298), or the
\* sequential loop is (orchestrator.py:302-313).
AllCollected == \A k \in 1..Len(run.targets) : tasks[run.targets[k]].st = "collected"

\* execute_workflow after the last target (orchestrator.py:315-331).
FinishWorkflow ==
    /\ run.phase = "running"
    /\ run.entry = "execute_workflow"
    /\ AllCollected
    /\ report' = create_report(run.acc, errors)
    /\ run' = [run EXCEPT !.phase = "returned"]
    /\ UNCHANGED <<cfg, errors, tasks, nruns, faults, retryVars>>

\* custom_workflow up to its repository loop (orchestrator.py:393-407).
StartCustom ==
    /\ Constructed
    /\ run.phase # "running"
    /\ nruns < RunLimit
    /\ \E req \in CustomRequests :
        LET targets == TargetRepos(req.rf) IN
        /\ run' = Begun(req, targets, FALSE)
        /\ tasks' = Queued(targets)
    /\ report' = NoReport
    /\ nruns' = nruns + 1
    /\ UNCHANGED <<cfg, errors, faults, retryVars>>

\* On to the next target branch, or done with this repository.
NextBranch(t, tb) ==
    IF t.bi = Len(tb)
    THEN [IdleTask EXCEPT !.st = "collected"]
    ELSE [t EXCEPT !.bi = @ + 1, !.oi = 1, !.opres = <<>>, !.rs = IdleRetry]

\* custom_workflow, top of the repository loop (orchestrator.py:407-419):
\* BranchOperations(repo_config, ...) is built outside any try, so its
\* GitCommandError for a path that is no git repository leaves the call.
CustomBegin(i) ==
    /\ run.phase = "running"
    /\ run.entry = "custom_workflow"
    /\ tasks[i].st = "queued"
    /\ \A j \in Before(i) : tasks[j].st = "collected"
    /\ IF ~is_git_repository(i)
       THEN /\ run' = [run EXCEPT !.phase = "escaped"]
            /\ tasks' = [j \in RepoIdx |-> IdleTask]
       ELSE /\ tasks' = [tasks EXCEPT ![i] =
                  IF TargetBranches(i, run.bf) = <<>>
                  THEN [IdleTask EXCEPT !.st = "collected"]
                  ELSE [@ EXCEPT !.st = "running", !.bi = 1, !.oi = 1]]
            /\ UNCHANGED run
    /\ UNCHANGED <<cfg, errors, report, nruns, faults, retryVars>>

\* workflow_func(branch_ops, branch_config) (orchestrator.py:421), a
\* procedure like my_custom_workflow (examples/example_usage.py:148-164): the
\* BranchOperations method at position oi makes its next external invocation.
\* An exception out of it ends the procedure and is caught at
\* orchestrator.py:435-441: one error, no BranchReport for the branch.
CustomOperation(i) ==
    /\ run.phase = "running"
    /\ run.entry = "custom_workflow"
    /\ tasks[i].st = "running"
    /\ tasks[i].oi <= Len(run.ops)
    /\ \E out \in Possible(run.ops[tasks[i].oi]) :
        LET t  == tasks[i]
            tb == TargetBranches(i, run.bf)
            r  == BranchOp(t, run.ops[t.oi], out, cfg.retry_attempts)
        IN  /\ faults' = Fault(out # "ok")
            /\ IF r.done /\ r.exc
               THEN /\ errors' = Append(errors, CustomError(tb[t.bi]))
                    /\ tasks' = [tasks EXCEPT ![i] = NextBranch(t, tb)]
               ELSE /\ tasks' = [tasks EXCEPT ![i] =
                          IF r.done THEN Complete(t, r.res)
                          ELSE [t EXCEPT !.rs = r.rs]]
                    /\ UNCHANGED errors
    /\ UNCHANGED <<cfg, run, report, nruns, retryVars>>

\* After the procedure returned its results (orchestrator.py:423-441): the
\* status query, inside the same try; the BranchReport is appended only if it
\* did not raise.
CustomStatus(i) ==
    /\ run.phase = "running"
    /\ run.entry = "custom_workflow"
    /\ tasks[i].st = "running"
    /\ tasks[i].oi > Len(run.ops)
    /\ \E ok \in StatusPossible :
        LET t  == tasks[i]
            tb == TargetBranches(i, run.bf)
        IN  /\ faults' = Fault(~ok)
            /\ IF ok
               THEN /\ run' = [run EXCEPT !.acc =
                                 Append(@, BranchReport(i, tb[t.bi], t.opres, TRUE))]
                    /\ UNCHANGED errors
               ELSE /\ errors' = Append(errors, CustomError(tb[t.bi]))
                    /\ UNCHANGED run
            /\ tasks' = [tasks EXCEPT ![i] = NextBranch(t, tb)]
    /\ UNCHANGED <<cfg, report, nruns, retryVars>>

\* custom_workflow after the last repository (orchestrator.py:443-451).
FinishCustom ==
    /\ run.phase = "running"
    /\ run.entry = "custom_workflow"
    /\ AllCollected
    /\ report' = create_report(run.acc, errors)
    /\ run' = [run EXCEPT !.phase = "returned"]
    /\ UNCHANGED <<cfg, errors, tasks, nruns, faults, retryVars>>

\* ------------------------- MultiBranchOperations.fetch_all_branches
\* No fetch_all_branches call in progress.
NoBatch ==
    [ names |-> <<>>, workers |-> 1, attempts |-> 0, jobs |-> <<>>,
      results |-> <<>> ]

\* A call fetch_all_branches(names) on a MultiBranchOperations built with
\* max_workers = w and retry_attempts = a (branch_ops.py:481-496): one future
\* per entry of names, submitted in order (branch_ops.py:516-520).
NewBatch(names, w, a) ==
    [ names |-> names, workers |-> w, attempts |-> a,
      jobs |-> [k \in 1..Len(names) |-> [st |-> "queued", rs |-> IdleRetry]],
      results |-> <<>> ]

BatchIdx == 1..Len(batch.names)

\* Futures a pool worker is busy with.
BatchBusy == {k \in BatchIdx : batch.jobs[k].st = "running"}

\* A result that leaves out the branch of a target whose worker raised, for
\* comparison with BatchResult below.
BatchResultUnnamed(name, job) ==
    IF job.st = "raised"
    THEN [branch_name |-> "", operation |-> "fetch", success |-> FALSE]
    ELSE [branch_name |-> name, operation |-> "fetch", success |-> job.rs.success]

\* What the collecting loop appends for a finished future
\* (branch_ops.py:522-534): the OperationResult fetch_branch returned
\* (branch_ops.py:282-288), or a failed one for the future's branch when
\* fetch_branch raised.
BatchResult(name, job) ==
    IF job.st = "raised"
    THEN [branch_name |-> name, operation |-> "fetch", success |-> FALSE]
    ELSE [branch_name |-> name, operation |-> "fetch", success |-> job.rs.success]

\* A job whose retry loop stands at rs: still running, or come back from
\* fetch_branch by return or by exception.
JobAt(rs) ==
    [ st |-> IF ~OpFinished(rs) THEN "running"
             ELSE IF FetchResult(rs).kind = "exception" THEN "raised"
             ELSE "returned",
      rs |-> rs ]

\* A free worker takes the oldest queued future and enters fetch_branch, up
\* to the first invocation of the command (branch_ops.py:269-280).
BatchBegin(k) ==
    /\ k \in BatchIdx
    /\ batch.jobs[k].st = "queued"
    /\ \A j \in BatchIdx : j < k => batch.jobs[j].st # "queued"
    /\ Cardinality(BatchBusy) < batch.workers
    /\ batch' = [batch EXCEPT !.jobs[k] =
          JobAt(RetryCall(batch.attempts, FetchInitialDelay, DefaultBase))]
    /\ UNCHANGED <<rcfg, retry, outcomes, fres, bo, orchVars>>

\* The next invocation of git fetch for job k (utils.py:149-183).
BatchAttempt(k) ==
    /\ k \in BatchIdx
    /\ batch.jobs[k].st = "running"
    /\ \E out \in CommandOutcomes :
        batch' = [batch EXCEPT !.jobs[k] = JobAt(RetryAttempt(@.rs, out))]
    /\ UNCHANGED <<rcfg, retry, outcomes, fres, bo, orchVars>>

\* as_completed hands over a finished future in any order
\* (branch_ops.py:522-534).
BatchCollect(k) ==
    /\ k \in BatchIdx
    /\ batch.jobs[k].st \in {"returned", "raised"}
    /\ batch' = [batch EXCEPT
          !.results = Append(@, BatchResult(batch.names[k], batch.jobs[k])),
          !.jobs[k].st = IF @ = "raised" THEN "collected_raised" ELSE "collected"]
    /\ UNCHANGED <<rcfg, retry, outcomes, fres, bo, orchVars>>

\* ------------------------------------------------ utils.validate_branch_name
\* A branch name is the sequence of its characters.  pat occurs in name
\* (Python `pat in name`), name.startswith(pat), name.endswith(pat).
Contains(name, pat) ==
    \E i \in 1..(Len(name) - Len(pat) + 1) : SubSeq(name, i, i + Len(pat) - 1) = pat

StartsWith(name, pat) ==
    Len(name) >= Len(pat) /\ SubSeq(name, 1, Len(pat)) = pat

EndsWith(name, pat) ==
    /\ Len(name) >= Len(pat)
    /\ SubSeq(name, Len(name) - Len(pat) + 1, Len(name)) = pat

\* invalid_chars (utils.py:203): eight single characters, the first of them
\* the space, and the two-character sequence "..".
invalid_chars ==
    << <<" ">>, <<"~">>, <<"^">>, <<":">>, <<"?">>, <<"*">>, <<"[">>, <<"\\">>,
       <<".", ".">> >>

DotLock == <<".", "l", "o", "c", "k">>

\* validate_branch_name(branch_name) (utils.py:189-216).
validate_branch_name(name) ==
    IF name = <<>> THEN FALSE
    ELSE IF \E k \in 1..Len(invalid_chars) : Contains(name, invalid_chars[k])
    THEN FALSE
    ELSE IF StartsWith(name, <<"/">>) \/ EndsWith(name, <<"/">>) THEN FALSE
    ELSE IF EndsWith(name, DotLock) THEN FALSE
    ELSE TRUE

\* ----------------------------------------------------- BranchOperations
\* None, and the empty string, which the methods treat alike
\* (`branch_name or ...`, `if not current`).
None == <<>>
Main == <<"m", "a", "i", "n">>
Dev == <<"d", "e", "v">>
\* What `git rev-parse --abbrev-ref HEAD` prints on a detached HEAD.
DetachedHead == <<"H", "E", "A", "D">>
\* branch_name of the result when no branch could be determined.
Unknown == <<"u", "n", "k", "n", "o", "w", "n">>
Arrow == <<" ", "-", ">", " ">>

\* The CommandResult of rev-parse: not asked yet, or what it answered.
NotAsked == [asked |-> FALSE, success |-> FALSE, stdout |-> <<>>]
RevParseAnswers ==
    {[asked |-> TRUE, success |-> FALSE, stdout |-> <<>>]}
    \cup {[asked |-> TRUE, success |-> TRUE, stdout |-> o] :
            o \in {Main, Dev, DetachedHead}}

\* A reading of rev-parse that takes whatever it printed for a branch name,
\* for comparison with get_current_branch below.
get_current_branch_raw(r) == IF r.success THEN r.stdout ELSE None

\* get_current_branch (branch_ops.py:88-104), given the CommandResult.
get_current_branch(r) ==
    IF r.success
    THEN IF r.stdout = DetachedHead THEN None ELSE r.stdout
    ELSE None

\* What a method handed back: nothing yet, an OperationResult, or an
\* exception.
NoOpResult ==
    [kind |-> "none", success |-> FALSE, operation |-> "", branch_name |-> <<>>]
BoResult(ok, op, bn) ==
    [kind |-> "OperationResult", success |-> ok, operation |-> op,
     branch_name |-> bn]
BoRaised(op) ==
    [kind |-> "exception", success |-> FALSE, operation |-> op,
     branch_name |-> <<>>]

\* No method call in progress.  log is the sequence of external commands
\* invoked so far, each with its success; exists tells what the branch
\* listing said of the wanted branch.
NoCall ==
    [ method |-> "none", pc |-> "idle", name |-> <<>>, target |-> <<>>,
      cim |-> FALSE, strategy |-> "merge", log |-> <<>>, rs |-> IdleRetry,
      result |-> NoOpResult, head |-> NotAsked, exists |-> "unknown",
      current |-> <<>> ]

\* execute_git_command(cmd ...) was invoked and returned (utils.py:89-118).
Invoked(b, cmd, ok) == [b EXCEPT !.log = Append(@, [cmd |-> cmd, ok |-> ok])]

\* return res
Done(b, res) == [b EXCEPT !.pc = "done", !.result = res]

\* The operation field each method writes in its results.
OpName(method) ==
    CASE method = "create_branch" -> "create"
      [] method = "switch_branch" -> "switch"
      [] method = "fetch_branch" -> "fetch"
      [] method = "pull_branch" -> "pull"
      [] method = "push_branch" -> "push"
      [] OTHER -> "merge"

\* Merge strategies tried: the three the method knows and one it does not.
Strategies == {"merge", "rebase", "squash", "ours"}

\* f"merge ({strategy})" (branch_ops.py:376).
MergeOperation(strategy) ==
    CASE strategy = "rebase" -> "merge (rebase)"
      [] strategy = "squash" -> "merge (squash)"
      [] strategy = "ours" -> "merge (ours)"
      [] OTHER -> "merge (merge)"

\* A strategy choice that always merges, for comparison with MergeCommand
\* below.
MergeCommandPlain(strategy) == "merge"

\* The command merge_branch invokes (branch_ops.py:365-371).
MergeCommand(strategy) ==
    IF strategy = "rebase" THEN "rebase"
    ELSE IF strategy = "squash" THEN "merge --squash"
    ELSE "merge"

\* retry_with_backoff(operation, max_attempts=self.retry_attempts,
\* initial_delay=2.0) as fetch_branch, pull_branch and push_branch call it
\* (branch_ops.py:276-280, 318-322, 417-421); self.retry_attempts is
\* Config.retry_attempts (orchestrator.py:84).  With no attempt allowed the
\* call raises at once.
ThroughRetry(b, current) ==
    LET rs == RetryCall(cfg.retry_attempts, FetchInitialDelay, DefaultBase) IN
    IF rs.status = "raised"
    THEN [Done(b, BoRaised(OpName(b.method))) EXCEPT !.rs = rs, !.current = current]
    ELSE [b EXCEPT !.pc = "retry", !.rs = rs, !.current = current]

\* A create_branch that goes to the branch listing whatever the name, for
\* comparison with create_branch below.
create_branch_unchecked(c) == [c EXCEPT !.pc = "list"]

\* create_branch up to its first external command (branch_ops.py:183-193).
create_branch(c) ==
    IF ~validate_branch_name(c.name)
    THEN Done(c, BoResult(FALSE, "create", c.name))
    ELSE [c EXCEPT !.pc = "list"]

\* switch_branch up to its first external command (branch_ops.py:229-230):
\* the branch listing comes first, nothing is asked of the name.
switch_branch(c) == [c EXCEPT !.pc = "list"]

\* fetch_branch (branch_ops.py:269-280).
fetch_branch(c) == ThroughRetry(c, c.name)

\* pull_branch (branch_ops.py:301) and push_branch (branch_ops.py:398):
\* current = branch_name or self.get_current_branch().
pull_branch(c) ==
    IF c.name # None THEN ThroughRetry(c, c.name) ELSE [c EXCEPT !.pc = "head"]

push_branch(c) ==
    IF c.name # None THEN ThroughRetry(c, c.name) ELSE [c EXCEPT !.pc = "head"]

\* merge_branch (branch_ops.py:349, 360): rev-parse is asked once, at line
\* 349 when no target is named and at line 360 when one is.
merge_branch(c) == [c EXCEPT !.pc = "head"]

\* Names handed to the methods: a valid one, three that validate_branch_name
\* rejects ("b..d", "a b" and the empty name) and one with a tab.
ArgNames ==
    {Main, <<"b", ".", ".", "d">>, <<"a", " ", "b">>, <<"a", "\t", "b">>, None}

BranchOpsCalls ==
    {[NoCall EXCEPT !.method = "create_branch", !.name = n] : n \in ArgNames}
    \cup {[NoCall EXCEPT !.method = "switch_branch", !.name = n, !.cim = c] :
            n \in ArgNames, c \in BOOLEAN}
    \cup {[NoCall EXCEPT !.method = "fetch_branch", !.name = Main]}
    \cup {[NoCall EXCEPT !.method = m, !.name = n] :
            m \in {"pull_branch", "push_branch"}, n \in {None, Main}}
    \cup {[NoCall EXCEPT !.method = "merge_branch", !.name = Dev, !.target = t,
                         !.strategy = s] :
            t \in {None, Main}, s \in Strategies}

\* A caller invokes one method of a BranchOperations object.
BoCall ==
    /\ bo.method = "none"
    /\ \E c \in BranchOpsCalls :
        bo' = CASE c.method = "create_branch" -> create_branch(c)
                [] c.method = "switch_branch" -> switch_branch(c)
                [] c.method = "fetch_branch" -> fetch_branch(c)
                [] c.method = "pull_branch" -> pull_branch(c)
                [] c.method = "push_branch" -> push_branch(c)
                [] OTHER -> merge_branch(c)
    /\ UNCHANGED <<rcfg, retry, outcomes, fres, batch, orchVars>>

\* The branch the method works on, once rev-parse has answered r
\* (branch_ops.py:301-309, 349-363, 398-406).  pull and push give up when it
\* is unknown; merge gives up when it is unknown and no target is named,
\* switches when the target named is not the current branch, and otherwise
\* goes to its merge command.
AfterHead(b, r) ==
    LET cur == get_current_branch(r) IN
    IF b.method \in {"pull_branch", "push_branch"}
    THEN IF cur = None
         THEN Done(b, BoResult(FALSE, OpName(b.method), Unknown))
         ELSE ThroughRetry(b, cur)
    ELSE IF b.target = None
         THEN IF cur = None
              THEN Done(b, BoResult(FALSE, "merge", Unknown))
              ELSE [b EXCEPT !.pc = "exec", !.current = cur]
         ELSE IF cur # b.target
              THEN [b EXCEPT !.pc = "list", !.current = b.target]
              ELSE [b EXCEPT !.pc = "exec", !.current = b.target]

BoHead ==
    /\ bo.pc = "head"
    /\ \E r \in RevParseAnswers :
        bo' = AfterHead([Invoked(bo, "rev-parse", r.success) EXCEPT !.head = r], r)
    /\ UNCHANGED <<rcfg, retry, outcomes, fres, batch, orchVars>>

\* What list_branches can find out: the listing fails, or it succeeds, the
\* wanted branch is in it or not, and the rev-parse that follows succeeds or
\* not.
Listings ==
    {[success |-> FALSE, found |-> FALSE, head |-> FALSE]}
    \cup {[success |-> TRUE, found |-> f, head |-> h] : f, h \in BOOLEAN}

\* list_branches (branch_ops.py:116-127): `git branch -vv`, then, if that
\* succeeded, get_current_branch.
list_branches(b, l) ==
    LET b1 == Invoked(b, "branch -vv", l.success) IN
    IF l.success THEN Invoked(b1, "rev-parse", l.head) ELSE b1

\* The branch looked for in the listing: the target when merge_branch
\* switches, else the branch named.
Wanted(b) == IF b.method = "merge_branch" THEN b.target ELSE b.name

\* create_branch (branch_ops.py:193-201) and switch_branch
\* (branch_ops.py:230-240) after the listing.
AfterList(b, l) ==
    LET b2 == [list_branches(b, l) EXCEPT !.exists = IF l.found THEN "yes" ELSE "no"]
    IN  IF b.method = "create_branch"
        THEN IF l.found
             THEN Done(b2, BoResult(FALSE, "create", b.name))
             ELSE [b2 EXCEPT !.pc = "exec"]
        ELSE IF ~l.found /\ ~b.cim
             THEN Done(b2, BoResult(FALSE, "switch", Wanted(b)))
             ELSE [b2 EXCEPT !.pc = "checkout"]

BoList ==
    /\ bo.pc = "list"
    /\ \E l \in Listings : bo' = AfterList(bo, l)
    /\ UNCHANGED <<rcfg, retry, outcomes, fres, batch, orchVars>>

\* switch_branch, the checkout (branch_ops.py:243-256); under merge_branch
\* its result is returned if it failed (branch_ops.py:361-363).
BoCheckout ==
    /\ bo.pc = "checkout"
    /\ \E ok \in BOOLEAN :
        LET cmd == IF bo.cim /\ bo.exists = "no" THEN "checkout -b" ELSE "checkout"
            b   == Invoked(bo, cmd, ok)
            res == BoResult(ok, "switch", Wanted(bo))
        IN  bo' = IF bo.method = "switch_branch" THEN Done(b, res)
                  ELSE IF ok THEN [b EXCEPT !.pc = "exec"]
                  ELSE Done(b, res)
    /\ UNCHANGED <<rcfg, retry, outcomes, fres, batch, orchVars>>

\* The command of create_branch (branch_ops.py:204-216) or of merge_branch
\* (branch_ops.py:365-379), and the result built from it.
BoExec ==
    /\ bo.pc = "exec"
    /\ \E ok \in BOOLEAN :
        bo' = IF bo.method = "create_branch"
              THEN Done(Invoked(bo, "branch", ok), BoResult(ok, "create", bo.name))
              ELSE Done(Invoked(bo, MergeCommand(bo.strategy), ok),
                        BoResult(ok, MergeOperation(bo.strategy),
                                 bo.name \o Arrow \o bo.current))
    /\ UNCHANGED <<rcfg, retry, outcomes, fres, batch, orchVars>>

\* One attempt of fetch, pull or push inside retry_with_backoff, and, when
\* the loop is over, the OperationResult built from what it returned
\* (branch_ops.py:282-288, 324-330, 423-429) or its exception passed on.
BoRetry ==
    /\ bo.pc = "retry"
    /\ \E out \in CommandOutcomes :
        LET rs == RetryAttempt(bo.rs, out)
            b  == [Invoked(bo, OpName(bo.method), out = "ok") EXCEPT !.rs = rs]
            fr == FetchResult(rs)
        IN  bo' = IF rs.status = "running" THEN b
                  ELSE IF fr.kind = "exception"
                       THEN Done(b, BoRaised(OpName(bo.method)))
                       ELSE Done(b, BoResult(fr.success, OpName(bo.method),
                                             bo.current))
    /\ UNCHANGED <<rcfg, retry, outcomes, fres, batch, orchVars>>

\* ------------------------------------------------------------------ Spec
\* A freshly constructed orchestrator (orchestrator.py:48-62) over a
\* configuration that passed validation.
ParkedCall == [caller |-> "none", max |-> 0, init |-> 0, base |-> 0]

Init ==
    /\ cfg \in Configs
    /\ errors = <<>>
    /\ run = IdleRun
    /\ tasks = [i \in RepoIdx |-> IdleTask]
    /\ report = NoReport
    /\ nruns = 0
    /\ faults = 0
    /\ rcfg = ParkedCall
    /\ retry = IdleRetry
    /\ outcomes = <<>>
    /\ fres = NoResult
    /\ batch = NoBatch
    /\ bo = NoCall

Next ==
    \/ StartWorkflow
    \/ \E i \in RepoIdx : TaskBegin(i)
    \/ \E i \in RepoIdx : TaskOperation(i)
    \/ \E i \in RepoIdx : TaskStatus(i)
    \/ \E i \in RepoIdx : Collect(i)
    \/ FinishWorkflow
    \/ StartCustom
    \/ \E i \in RepoIdx : CustomBegin(i)
    \/ \E i \in RepoIdx : CustomOperation(i)
    \/ \E i \in RepoIdx : CustomStatus(i)
    \/ FinishCustom

Spec == Init /\ [][Next]_vars

\* ------------------------------------------------------------- SpecRetry
\* Defaults of Config (config.py:144-146).
DefaultMaxWorkers == 4
DefaultRetryAttempts == 3
DefaultConfig ==
    [ parallel_operations |-> TRUE, max_workers |-> DefaultMaxWorkers,
      retry_attempts |-> DefaultRetryAttempts,
      retry_delay |-> DefaultRetryDelay, notGit |-> {},
      repositories |-> AllRepos, missing |-> {} ]

RetryCfgs ==
    { [caller |-> "direct", max |-> m, init |-> d, base |-> b] :
        m \in 0..MaxAttempts, d \in 1..MaxDelay, b \in 1..MaxBase }
    \cup
    { [caller |-> "fetch_branch", max |-> m, init |-> FetchInitialDelay,
       base |-> DefaultBase] : m \in 0..MaxAttempts }

InitRetry ==
    /\ rcfg \in RetryCfgs
    /\ retry = RetryCall(rcfg.max, rcfg.init, rcfg.base)
    /\ outcomes = <<>>
    /\ fres = NoResult
    /\ batch = NoBatch
    /\ bo = NoCall
    /\ cfg = DefaultConfig
    /\ errors = <<>>
    /\ run = IdleRun
    /\ tasks = [i \in RepoIdx |-> IdleTask]
    /\ report = NoReport
    /\ nruns = 0
    /\ faults = 0

\* func is execute_git_command under fetch_branch, which always returns a
\* CommandResult or raises.
CallerOutcomes == IF rcfg.caller = "fetch_branch" THEN Outcomes \ {"other"} ELSE Outcomes

Attempt ==
    /\ retry.status = "running"
    /\ \E out \in CallerOutcomes :
        /\ retry' = RetryAttempt(retry, out)
        /\ outcomes' = Append(outcomes, out)
    /\ UNCHANGED <<rcfg, fres, batch, bo, orchVars>>

FetchReturn ==
    /\ rcfg.caller = "fetch_branch"
    /\ retry.status # "running"
    /\ fres = NoResult
    /\ fres' = FetchResult(retry)
    /\ UNCHANGED <<rcfg, retry, outcomes, batch, bo, orchVars>>

NextRetry == Attempt \/ FetchReturn

SpecRetry == InitRetry /\ [][NextRetry]_vars

\* ---------------------------------------------------------------- SpecBatch
\* Lists of branch names handed to fetch_all_branches; a name may occur more
\* than once.
BatchInputs == UNION {[1..n -> {"main", "dev"}] : n \in 0..MaxBatch}

InitBatch ==
    /\ batch \in { NewBatch(ns, w, a) :
                      ns \in BatchInputs, w \in {1, MaxWorkers},
                      a \in {0, 1, MaxRetryAttempts} }
    /\ rcfg = ParkedCall
    /\ retry = IdleRetry
    /\ outcomes = <<>>
    /\ fres = NoResult
    /\ bo = NoCall
    /\ cfg = DefaultConfig
    /\ errors = <<>>
    /\ run = IdleRun
    /\ tasks = [i \in RepoIdx |-> IdleTask]
    /\ report = NoReport
    /\ nruns = 0
    /\ faults = 0

\* orchVars is left alone by the three actions; the job index ranges over the
\* largest batch.
NextBatch ==
    \/ \E k \in 1..MaxBatch : BatchBegin(k)
    \/ \E k \in 1..MaxBatch : BatchAttempt(k)
    \/ \E k \in 1..MaxBatch : BatchCollect(k)

SpecBatch == InitBatch /\ [][NextBatch]_vars

\* ---------------------------------------------------------- SpecConstruct
\* Configurations handed to the constructor, valid or not: no repository or
\* all of them, every path there or the path of r2 missing, max_workers 0 or
\* 1, retry_attempts -1, 0 or 1.
ConstructConfigs ==
    [ parallel_operations : {FALSE}, max_workers : {0, 1},
      retry_attempts : {-1, 0, 1}, retry_delay : {DefaultRetryDelay},
      notGit : {{}}, repositories : {<<>>, AllRepos},
      missing : {{}, {"/srv/b"}} ]

InitConstruct ==
    /\ cfg \in ConstructConfigs
    /\ run = [IdleRun EXCEPT !.phase = "unconstructed", !.outdir = FALSE]
    /\ errors = <<>>
    /\ tasks = [i \in RepoIdx |-> IdleTask]
    /\ report = NoReport
    /\ nruns = 0
    /\ faults = 0
    /\ rcfg = ParkedCall
    /\ retry = IdleRetry
    /\ outcomes = <<>>
    /\ fres = NoResult
    /\ batch = NoBatch
    /\ bo = NoCall

\* MultibranchOrchestrator(config) (orchestrator.py:48-62): build the
\* ReportGenerator, which creates the report directory, set self.errors to
\* [], then raise ValueError if config.validate() lists any error.
Construct ==
    /\ run.phase = "unconstructed"
    /\ run' = IF validate(cfg) # <<>>
              THEN [run EXCEPT !.phase = "ValueError", !.outdir = TRUE]
              ELSE IdleRun
    /\ errors' = <<>>
    /\ UNCHANGED <<cfg, tasks, report, nruns, faults, retryVars>>

NextConstruct ==
    \/ Construct
    \/ StartWorkflow
    \/ \E i \in RepoIdx : TaskBegin(i)
    \/ \E i \in RepoIdx : TaskOperation(i)
    \/ \E i \in RepoIdx : TaskStatus(i)
    \/ \E i \in RepoIdx : Collect(i)
    \/ FinishWorkflow
    \/ StartCustom
    \/ \E i \in RepoIdx : CustomBegin(i)
    \/ \E i \in RepoIdx : CustomOperation(i)
    \/ \E i \in RepoIdx : CustomStatus(i)
    \/ FinishCustom

SpecConstruct == InitConstruct /\ [][NextConstruct]_vars

\* ---------------------------------------------------------------- SpecRun
\* Calls of execute_workflow and custom_workflow whose external invocations
\* all return and whose sleeps all end: a call that has a step to take
\* takes one.
InitRun ==
    /\ Init
    /\ cfg.retry_attempts \in {0, MaxRetryAttempts}

\* The steps of a call once it is made, for either entry point.
RunWork ==
    \/ \E i \in RepoIdx : TaskBegin(i)
    \/ \E i \in RepoIdx : TaskOperation(i)
    \/ \E i \in RepoIdx : TaskStatus(i)
    \/ \E i \in RepoIdx : Collect(i)
    \/ FinishWorkflow
    \/ \E i \in RepoIdx : CustomBegin(i)
    \/ \E i \in RepoIdx : CustomOperation(i)
    \/ \E i \in RepoIdx : CustomStatus(i)
    \/ FinishCustom

RunFairness == WF_vars(RunWork)

SpecRun == InitRun /\ [][Next]_vars /\ RunFairness

\* ------------------------------------------------------------- SpecReport
\* Repository entries a configuration file can list.  Config.validate
\* (config.py:308-330) asks neither that names differ between entries nor
\* that a branch is listed once: the third entry is named like the first,
\* the fourth lists main twice.
RepositoryEntries ==
    { [name |-> "r1", path |-> "/srv/a", branches |-> <<"main", "dev">>],
      [name |-> "r2", path |-> "/srv/b", branches |-> <<"main">>],
      [name |-> "r1", path |-> "/srv/c", branches |-> <<"main">>],
      [name |-> "r3", path |-> "/srv/d", branches |-> <<"main", "main">>] }

\* Config.repositories: one or two entries.
ListedRepositories == UNION {[1..n -> RepositoryEntries] : n \in 1..2}

\* target_repos (orchestrator.py:250-258) over a list of entries.
target_repos(repos, rf) ==
    SelectSeq(repos, LAMBDA r : ~Truthy(rf) \/ r.name \in rf.names)

\* target_branches (orchestrator.py:157-166) of one entry.
target_branches(repo, bf) ==
    SelectSeq(repo.branches, LAMBDA b : ~Truthy(bf) \/ b \in bf.names)

\* What execute_workflow_on_repository returns for an entry when nothing
\* raises (orchestrator.py:155-225): one BranchReport per target branch, in
\* order, here for an empty operation list.
branch_reports(repo, bf) ==
    [ k \in 1..Len(target_branches(repo, bf)) |->
        [ branch_name |-> target_branches(repo, bf)[k], repository |-> repo.name,
          operations |-> <<>>, status |-> "status", success |-> TRUE ] ]

\* An execute_workflow(operations=[], ...) call in sequential mode over the
\* listed entries: at is the position of the target the loop is at.
InitReport ==
    /\ cfg = DefaultConfig
    /\ run \in [ phase : {"idle"}, listed : ListedRepositories,
                 rf : {NoFilter, Only({"r1"}), Only({"zz"})},
                 bf : {NoFilter, Only({"main"}), Only({"dev"})},
                 targets : {<<>>}, at : {0}, acc : {<<>>} ]
    /\ errors = <<>>
    /\ tasks = [i \in RepoIdx |-> IdleTask]
    /\ report = NoReport
    /\ nruns = 0
    /\ faults = 0
    /\ rcfg = ParkedCall
    /\ retry = IdleRetry
    /\ outcomes = <<>>
    /\ fres = NoResult
    /\ batch = NoBatch
    /\ bo = NoCall

\* orchestrator.py:247-266: resolve the targets; with none, one error and the
\* Report at once.
ReportStart ==
    /\ run.phase = "idle"
    /\ LET targets == target_repos(run.listed, run.rf) IN
        IF targets = <<>>
        THEN /\ errors' = Append(errors, NoReposError)
             /\ report' = create_report(<<>>, errors')
             /\ run' = [run EXCEPT !.phase = "returned"]
        ELSE /\ run' = [run EXCEPT !.phase = "running", !.targets = targets, !.at = 1]
             /\ UNCHANGED <<errors, report>>
    /\ UNCHANGED <<cfg, tasks, nruns, faults, retryVars>>

\* orchestrator.py:302-313: the task of the target at hand returns its branch
\* reports, which extend the accumulator, or raises (its path is no git
\* repository), which adds one error.
ReportTask ==
    /\ run.phase = "running"
    /\ run.at <= Len(run.targets)
    /\ LET repo == run.targets[run.at] IN
        \/ /\ run' = [run EXCEPT !.at = @ + 1,
                                 !.acc = @ \o branch_reports(repo, run.bf)]
           /\ UNCHANGED errors
        \/ /\ target_branches(repo, run.bf) # <<>>
           /\ errors' = Append(errors, [kind |-> "Repository failed", name |-> repo.name])
           /\ run' = [run EXCEPT !.at = @ + 1]
    /\ UNCHANGED <<cfg, tasks, report, nruns, faults, retryVars>>

\* orchestrator.py:315-331.
ReportFinish ==
    /\ run.phase = "running"
    /\ run.at > Len(run.targets)
    /\ report' = create_report(run.acc, errors)
    /\ run' = [run EXCEPT !.phase = "returned"]
    /\ UNCHANGED <<cfg, errors, tasks, nruns, faults, retryVars>>

NextReport == ReportStart \/ ReportTask \/ ReportFinish

SpecReport == InitReport /\ [][NextReport]_vars

\* ------------------------------------------------------------ SpecTargets
\* Calls of execute_workflow that differ in their two filters: absent, the
\* empty list, names of which some or none are configured.
TargetRepoFilters == {NoFilter, Only({}), Only({"r1", "zz"}), Only({"r2", "r3"}), Only({"zz"})}
TargetBranchFilters == {NoFilter, Only({}), Only({"dev", "zz"}), Only({"zz"})}

FilterRequests ==
    { [entry |-> "execute_workflow", via |-> "direct", ops |-> <<"fetch">>,
       rf |-> r, bf |-> b] :
        r \in TargetRepoFilters, b \in TargetBranchFilters }

InitTargets ==
    /\ Init
    /\ cfg.retry_attempts = 1
    /\ cfg.max_workers = 1
    /\ cfg.notGit = {}

NextTargets ==
    \/ \E req \in FilterRequests : execute_workflow(req)
    \/ \E i \in RepoIdx : TaskBegin(i)
    \/ \E i \in RepoIdx : TaskOperation(i)
    \/ \E i \in RepoIdx : TaskStatus(i)
    \/ \E i \in RepoIdx : Collect(i)
    \/ FinishWorkflow

SpecTargets == InitTargets /\ [][NextTargets]_vars

\* ------------------------------------------------------------ SpecCommand
\* One retry_with_backoff call as fetch_branch makes it, func being
\* execute_git_command over a subprocess that does any of the things it can.
\* outcomes records, for each invocation, what the subprocess did and the
\* CommandResult that came back.
InitCommand ==
    /\ rcfg \in { [caller |-> "execute_git_command", max |-> m,
                   init |-> FetchInitialDelay, base |-> DefaultBase] :
                    m \in 0..MaxAttempts }
    /\ retry = RetryCall(rcfg.max, rcfg.init, rcfg.base)
    /\ outcomes = <<>>
    /\ fres = NoResult
    /\ batch = NoBatch
    /\ bo = NoCall
    /\ cfg = DefaultConfig
    /\ errors = <<>>
    /\ run = IdleRun
    /\ tasks = [i \in RepoIdx |-> IdleTask]
    /\ report = NoReport
    /\ nruns = 0
    /\ faults = 0

\* One loop iteration: func() runs the command and the loop acts on the
\* CommandResult.
CommandAttempt ==
    /\ retry.status = "running"
    /\ \E sub \in SubprocessOutcomes :
        LET res == execute_command(sub) IN
        /\ retry' = RetryAttempt(retry, Seen(res))
        /\ outcomes' = Append(outcomes, [sub |-> sub, result |-> res])
    /\ UNCHANGED <<rcfg, fres, batch, bo, orchVars>>

NextCommand == CommandAttempt

SpecCommand == InitCommand /\ [][NextCommand]_vars

\* ---------------------------------------------------------- SpecBranchOps
\* One BranchOperations object over a git repository, built by an
\* orchestrator whose Config has any retry_attempts up to MaxRetryAttempts
\* and any retry_delay up to MaxDelay.
BranchOpsConfigs ==
    { [ parallel_operations |-> FALSE, max_workers |-> 1, retry_attempts |-> a,
        retry_delay |-> d, notGit |-> {}, repositories |-> AllRepos,
        missing |-> {} ] :
        a \in 0..MaxRetryAttempts, d \in 1..MaxDelay }

InitBranchOps ==
    /\ cfg \in BranchOpsConfigs
    /\ bo = NoCall
    /\ rcfg = ParkedCall
    /\ retry = IdleRetry
    /\ outcomes = <<>>
    /\ fres = NoResult
    /\ batch = NoBatch
    /\ errors = <<>>
    /\ run = IdleRun
    /\ tasks = [i \in RepoIdx |-> IdleTask]
    /\ report = NoReport
    /\ nruns = 0
    /\ faults = 0

NextBranchOps ==
    \/ BoCall
    \/ BoHead
    \/ BoList
    \/ BoCheckout
    \/ BoExec
    \/ BoRetry

SpecBranchOps == InitBranchOps /\ [][NextBranchOps]_vars

\* -------------------------------------------------------------- SpecNames
\* Pieces names are put together from: a letter, the space, the tab, each
\* character validate_branch_name looks for, the dot, the slash and ".lock".
NameParts ==
    { <<"m">>, <<" ">>, <<"\t">>, <<"~">>, <<"^">>, <<":">>, <<"?">>, <<"*">>,
      <<"[">>, <<"\\">>, <<".">>, <<"/">>, DotLock }

RECURSIVE Concat(_)
Concat(ps) == IF ps = <<>> THEN <<>> ELSE Head(ps) \o Concat(Tail(ps))

\* Every name of at most MaxParts pieces.
NamesTried ==
    {Concat(ps) : ps \in UNION {[1..n -> NameParts] : n \in 0..MaxParts}}

InitNames ==
    /\ bo \in {[NoCall EXCEPT !.name = n] : n \in NamesTried}
    /\ cfg = DefaultConfig
    /\ rcfg = ParkedCall
    /\ retry = IdleRetry
    /\ outcomes = <<>>
    /\ fres = NoResult
    /\ batch = NoBatch
    /\ errors = <<>>
    /\ run = IdleRun
    /\ tasks = [i \in RepoIdx |-> IdleTask]
    /\ report = NoReport
    /\ nruns = 0
    /\ faults = 0

\* A caller asks validate_branch_name about the name.
ValidateName ==
    /\ bo.method = "none"
    /\ bo' = [bo EXCEPT !.method = "validate_branch_name", !.pc = "done",
                        !.result = [kind |-> "bool",
                                    success |-> validate_branch_name(bo.name),
                                    operation |-> "validate_branch_name",
                                    branch_name |-> bo.name]]
    /\ UNCHANGED <<rcfg, retry, outcomes, fres, batch, orchVars>>

NextNames == ValidateName

SpecNames == InitNames /\ [][NextNames]_vars

\* ------------------------------------ specification: the two wrappers
\* An orchestrator whose callers use only sync_all_branches and
\* fetch_all_branches.
NextWrap ==
    \/ sync_all_branches
    \/ fetch_all_branches
    \/ \E i \in RepoIdx : TaskBegin(i)
    \/ \E i \in RepoIdx : TaskOperation(i)
    \/ \E i \in RepoIdx : TaskStatus(i)
    \/ \E i \in RepoIdx : Collect(i)
    \/ FinishWorkflow

SpecWrap == Init /\ [][NextWrap]_vars

\* ------------------------------------------------ claims about SpecRetry
RECURSIVE Pow(_, _)
Pow(b, e) == IF e = 0 THEN 1 ELSE b * Pow(b, e - 1)

Finished == retry.status # "running"

\* Every invocation made so far returned a failed CommandResult.
AlwaysFails == \A i \in 1..Len(outcomes) : outcomes[i] = "fail"

\* The last invocation returned a successful CommandResult and every earlier
\* one a failed CommandResult.
FailsThenSucceeds ==
    /\ outcomes # <<>>
    /\ outcomes[Len(outcomes)] = "ok"
    /\ \A i \in 1..(Len(outcomes) - 1) : outcomes[i] = "fail"

\* C7: for an action that fails on every invocation, retry_with_backoff with
\* max_attempts = N invokes it exactly N times, sleeps only between attempts
\* (no sleep after the last one) and returns the last failing result without
\* raising.  (The sleep count is written max(N-1, 0) so that N = 0 is judged
\* on what the call hands back, not on a negative count.)
C7_RetryExhaustion ==
    (Finished /\ AlwaysFails) =>
        /\ retry.status = "returned"
        /\ retry.isCmd /\ ~retry.success
        /\ retry.invocations = rcfg.max
        /\ Len(retry.sleeps) = (IF rcfg.max >= 1 THEN rcfg.max - 1 ELSE 0)

\* C8: for an action that fails its first k-1 invocations and succeeds on the
\* k-th, retry_with_backoff returns the successful result after exactly k
\* invocations (none after the first success), the i-th sleep (i = 0..k-2)
\* lasts initial_delay * exponential_base^i, and fetch_branch turns the result
\* into an OperationResult with success = true.
C8_RetryUntilSuccess ==
    /\ \A i \in 1..Len(outcomes) : outcomes[i] = "ok" => i = Len(outcomes)
    /\ FailsThenSucceeds =>
        /\ retry.status = "returned"
        /\ retry.isCmd /\ retry.success
        /\ retry.invocations = Len(outcomes)
        /\ Len(outcomes) <= rcfg.max
        /\ Len(retry.sleeps) = Len(outcomes) - 1
        /\ \A i \in 0..(Len(outcomes) - 2) :
              retry.sleeps[i + 1] = rcfg.init * Pow(rcfg.base, i)
        /\ (rcfg.caller = "fetch_branch" /\ fres # NoResult) =>
              (fres.kind = "OperationResult" /\ fres.success)

\* fetch_branch with retry_attempts = 3, failing twice and then succeeding,
\* has returned a successful OperationResult after three invocations, having
\* slept 2 and then 4 seconds.
C8_Witness ==
    /\ rcfg.caller = "fetch_branch"
    /\ rcfg.max = 3
    /\ outcomes = <<"fail", "fail", "ok">>
    /\ retry.invocations = 3
    /\ retry.sleeps = <<2, 4>>
    /\ fres.kind = "OperationResult"
    /\ fres.success

\* C9 as stated: when the action raises, retry_with_backoff performs no retry:
\* the exception reaches the caller after a single invocation, with no sleep.
C9_NoRetryOnException ==
    (\E i \in 1..Len(outcomes) : outcomes[i] = "raise") =>
        /\ retry.status = "raised"
        /\ retry.invocations = 1
        /\ retry.sleeps = <<>>

\* C9 as amended: an invocation that raises is retried like one that returns
\* a failure.  A raising attempt that is not the last allowed one is followed
\* by a backoff sleep of initial_delay * exponential_base^(attempt-1) and the
\* loop goes on; an exception reaches the caller only when no attempt is left,
\* that is after exactly max_attempts invocations and max(max_attempts-1, 0)
\* sleeps.
C9_ExceptionIsRetried ==
    /\ \A i \in 1..Len(outcomes) :
          (outcomes[i] = "raise" /\ i < rcfg.max) =>
              /\ Len(retry.sleeps) >= i
              /\ retry.sleeps[i] = rcfg.init * Pow(rcfg.base, i - 1)
              /\ (Len(outcomes) = i => retry.status = "running")
    /\ retry.status = "raised" =>
          /\ retry.invocations = rcfg.max
          /\ Len(retry.sleeps) = (IF rcfg.max >= 1 THEN rcfg.max - 1 ELSE 0)
          /\ (rcfg.max >= 1 => outcomes[Len(outcomes)] = "raise")

\* An action that raised three times under max_attempts = 3: three
\* invocations and two sleeps before the exception reached the caller.
C9_Witness ==
    /\ rcfg.max = 3
    /\ outcomes = <<"raise", "raise", "raise">>
    /\ retry.status = "raised"
    /\ retry.invocations = 3
    /\ Len(retry.sleeps) = 2

\* ----------------------------------------------------- claims about Spec
Returned == run.phase = "returned"

\* Positions of run.targets, as a set.
Targets == {run.targets[k] : k \in 1..Len(run.targets)}

Elems(s) == {s[k] : k \in 1..Len(s)}

\* Every BranchReport built so far in the current call: inside the repository
\* tasks, in the accumulator, and in the Report once it exists.
Reported ==
    UNION {Elems(tasks[i].reports) : i \in RepoIdx}
      \cup Elems(run.acc)
      \cup (IF report = NoReport THEN {} ELSE Elems(report.branch_reports))

\* The positions in report.branch_reports that hold the outcome of branch b of
\* repository i.
OutcomesOf(i, b) ==
    {k \in 1..Len(report.branch_reports) :
        /\ report.branch_reports[k].repository = Repositories[i].name
        /\ report.branch_reports[k].branch_name = b}

\* The positions of report.errors whose string names repository i as failed.
ErrorsNaming(i) == {k \in 1..Len(report.errors) : report.errors[k] = RepoError(i)}

\* C1: the Report returned by execute_workflow contains the branch outcomes of
\* every target repository whose task did not raise, and exactly one run-level
\* error string naming each target repository whose task raised.
C1_RepositoryIsolation ==
    (Returned /\ run.entry = "execute_workflow") =>
        \A i \in Targets :
            IF tasks[i].raised
            THEN Cardinality(ErrorsNaming(i)) = 1
            ELSE \A b \in Elems(TargetBranches(i, run.bf)) :
                    Cardinality(OutcomesOf(i, b)) = 1

\* C2: no call of execute_workflow or custom_workflow lets an exception
\* escape; each of them ends by returning a Report.
C2_NoExceptionEscapes == run.phase # "escaped"

\* (branch report, operation) positions of a list of branch reports.
OpSlots(brs) ==
    UNION {{<<k, j>> : j \in 1..Len(brs[k].operations)} : k \in 1..Len(brs)}

OkSlots(brs) == {p \in OpSlots(brs) : brs[p[1]].operations[p[2]].success}

\* C3: in every Report, total_operations is the number of OperationResults in
\* its branch reports, successful_operations the number of those with
\* success = true, and failed_operations = total_operations -
\* successful_operations.
C3_SummaryCounts ==
    report # NoReport =>
        /\ report.summary.total_operations =
              Cardinality(OpSlots(report.branch_reports))
        /\ report.summary.successful_operations =
              Cardinality(OkSlots(report.branch_reports))
        /\ report.summary.failed_operations =
              report.summary.total_operations
                  - report.summary.successful_operations

\* A returned Report over several branches, two operations each, of which
\* some succeeded and some failed.
C3_Witness ==
    /\ Returned
    /\ report # NoReport
    /\ Len(report.branch_reports) >= 2
    /\ report.summary.total_operations >= 4
    /\ report.summary.successful_operations >= 2
    /\ report.summary.failed_operations >= 1

\* C4: every BranchReport has success = true exactly when none of its
\* OperationResults has success = false; with an empty operation list it is
\* successful.
C4_BranchSuccess ==
    \A br \in Reported :
        br.success <=> ({k \in 1..Len(br.operations) :
                            ~br.operations[k].success} = {})

\* A returned Report with a branch whose two operations succeeded, reported
\* successful, next to a branch with one operation failed and one succeeded,
\* reported unsuccessful.
C4_Witness ==
    /\ Returned
    /\ report # NoReport
    /\ \E a, b \in Elems(report.branch_reports) :
        /\ Len(a.operations) = 2 /\ a.operations[1].success
        /\ a.operations[2].success /\ a.success
        /\ Len(b.operations) = 2 /\ ~b.operations[1].success
        /\ b.operations[2].success /\ ~b.success

\* An operation that goes through retry_with_backoff is over once it
\* succeeded or used every attempt retry_attempts allows.
Settled(res) == res.success \/ res.attempts = cfg.retry_attempts

\* C5: within one branch the operations run in the order of the caller's
\* list, one at a time: the operation in progress is the one right after
\* those that have a result, the results so far answer the first requested
\* operations in order, each of them complete with all its retries, and the
\* only retry loop in flight is that of the operation in progress.
C5_OperationOrder ==
    \A i \in RepoIdx :
        tasks[i].st = "running" =>
            LET t == tasks[i] IN
            /\ t.oi = Len(t.opres) + 1
            /\ t.oi <= Len(run.ops) + 1
            /\ \A k \in 1..Len(t.opres) :
                  /\ t.opres[k].operation \in {run.ops[k], ResultName(run.ops[k])}
                  /\ run.ops[k] \in RetryOps => Settled(t.opres[k])
            /\ t.rs.status \in {"idle", "running"}
            /\ t.rs.status = "running" =>
                  /\ t.oi <= Len(run.ops)
                  /\ run.ops[t.oi] \in RetryOps
                  /\ t.rs.invocations < cfg.retry_attempts

\* In parallel mode, a branch whose first operation succeeded on its second
\* attempt and whose second operation has failed once and is about to retry.
C5_Witness ==
    /\ run.parallel
    /\ run.entry = "execute_workflow"
    /\ \E i \in RepoIdx :
        /\ tasks[i].st = "running"
        /\ tasks[i].oi = 2
        /\ Len(tasks[i].opres) = 1
        /\ tasks[i].opres[1].success
        /\ tasks[i].opres[1].attempts = 2
        /\ tasks[i].rs.status = "running"
        /\ tasks[i].rs.invocations = 1

NothingResolved ==
    \A i \in Targets : TargetBranches(i, run.bf) = <<>>

\* C10: when the filters resolve to an empty target set, execute_workflow
\* returns a Report with no branch reports, total_operations = 0 and exactly
\* one run-level error string.
C10_EmptyResolution ==
    (Returned /\ run.entry = "execute_workflow" /\ NothingResolved) =>
        /\ report # NoReport
        /\ report.branch_reports = <<>>
        /\ report.summary.total_operations = 0
        /\ Len(report.errors) = 1

\* The branch task i is working on.
CurrentBranch(i) == TargetBranches(i, run.bf)[tasks[i].bi]

\* Task i is done with its current branch in this step.
LeavesBranch(i) ==
    /\ run.phase = "running"
    /\ tasks[i].st = "running"
    /\ tasks'[i].st # "running" \/ tasks'[i].bi # tasks[i].bi

\* C11: every OperationResult produced by an executed operation ends up in a
\* BranchReport: when a repository is done with a branch, the results its
\* operations produced are the operations of a BranchReport for that branch,
\* in execute_workflow and in custom_workflow, also when the status query or
\* the per-branch procedure fails after operations were executed.
C11_NoResultDropped ==
    [][ \A i \in RepoIdx :
            (LeavesBranch(i) /\ tasks[i].opres # <<>>) =>
                \E br \in Reported' :
                    /\ br.repository = Repositories[i].name
                    /\ br.branch_name = CurrentBranch(i)
                    /\ br.operations = tasks[i].opres ]_vars

\* The error strings recorded since the current call began.
ErrorsOfThisCall == SubSeq(errors, run.errs0 + 1, Len(errors))

\* C12: the error list of a call's Report holds only the errors recorded
\* during that call, none recorded during an earlier call on the same
\* orchestrator.
C12_ErrorsNotPersisted ==
    Returned => report.errors = ErrorsOfThisCall

\* The errors list of the Report the previous call returned, as it is now:
\* when it is self.errors itself, whatever has been appended since is in it.
PriorReportErrors == IF run.prior = "shared" THEN errors ELSE <<>>

\* C13: a returned Report is not changed by a later call: the errors list of
\* the Report of the call before still has the length it had when that Report
\* was returned.
C13_ReportNotMutated ==
    run.prior # "none" => Len(PriorReportErrors) = run.errs0

\* How often x occurs in the list s.
Count(s, x) == Cardinality({k \in 1..Len(s) : s[k] = x})

\* The branch reports the repository tasks of the current call have built.
BuiltBy(i) == Elems(tasks[i].reports)
Built == UNION {BuiltBy(i) : i \in RepoIdx}

\* C14: in a parallel run no append is lost or duplicated, whatever the
\* interleaving of the repository tasks and the collecting thread.  The
\* error list of the call holds one status error per branch report built
\* with a failed status query and one repository error per task that raised,
\* and nothing else; the accumulator holds every branch report of every
\* collected task once; the returned Report holds exactly those.
C14_AppendsAreSafe ==
    (run.entry = "execute_workflow" /\ run.parallel) =>
        /\ \A b \in {"main", "dev"} :
              Count(ErrorsOfThisCall, StatusError(b)) =
                  Cardinality({br \in Built :
                                  br.branch_name = b /\ br.status = "empty"})
        /\ \A i \in RepoIdx :
              Count(ErrorsOfThisCall, RepoError(i)) =
                  (IF tasks[i].raised THEN 1 ELSE 0)
        /\ \A k \in 1..Len(ErrorsOfThisCall) :
              \/ \E b \in {"main", "dev"} : ErrorsOfThisCall[k] = StatusError(b)
              \/ \E i \in RepoIdx : ErrorsOfThisCall[k] = RepoError(i)
        /\ \A i \in RepoIdx : \A br \in BuiltBy(i) :
              Count(run.acc, br) = (IF tasks[i].st = "collected" THEN 1 ELSE 0)
        /\ \A k \in 1..Len(run.acc) : run.acc[k] \in Built
        /\ Returned =>
              /\ report.branch_reports = run.acc
              /\ report.errors = errors

\* A returned parallel run in which the collecting thread recorded the
\* failure of r2 between the status errors two worker threads appended.
C14_Witness ==
    /\ Returned
    /\ run.entry = "execute_workflow"
    /\ run.parallel
    /\ Len(ErrorsOfThisCall) = 3
    /\ ErrorsOfThisCall[1] = StatusError("main")
    /\ ErrorsOfThisCall[2] = RepoError(2)
    /\ ErrorsOfThisCall[3] = StatusError("main")
    /\ Len(report.branch_reports) = 3

\* C15: no two repository tasks that run at the same time work on the same
\* repository path.
C15_UniquePaths ==
    \A i, j \in Busy :
        i # j => Repositories[i].path # Repositories[j].path

\* A repository task that has been started and not yet been collected.
Underway(i) == tasks[i].st \in {"running", "returned", "raised"}

\* C16: execute_workflow hands the repository workflows to the worker pool
\* exactly when parallel_operations is set and more than one repository is
\* targeted; otherwise the repositories are worked on one after another in
\* configuration order: none is started before every earlier target is done
\* with, so at most one is under way.
C16_DispatchMode ==
    (run.entry = "execute_workflow" /\ run.phase = "running") =>
        /\ run.parallel <=> (cfg.parallel_operations /\ Len(run.targets) > 1)
        /\ ~run.parallel =>
              /\ \A i, j \in Targets :
                    (i < j /\ tasks[j].st # "queued") => tasks[i].st = "collected"
              /\ Cardinality({i \in Targets : Underway(i)}) <= 1

\* parallel_operations is set and a single repository is targeted: it is
\* worked on without the pool.
C16_Witness ==
    /\ run.entry = "execute_workflow"
    /\ run.phase = "running"
    /\ cfg.parallel_operations
    /\ Len(run.targets) = 1
    /\ ~run.parallel
    /\ \E i \in Targets : tasks[i].st = "running" /\ tasks[i].oi = 2

\* ---------------------------------------------------------------- SpecPool
\* execute_workflow on an orchestrator with parallel_operations set, under
\* the scheduling the code relies on: a pool worker that is free takes the
\* next submitted task, a started task keeps running (every external command
\* ends, by itself or by its timeout, utils.py:40-87), and the calling thread
\* takes each finished task and then builds the Report.  Nothing obliges the
\* caller to make a call.  The pool never reads retry_attempts; its two
\* extremes, no attempt and MaxRetryAttempts, are tried.
InitPool ==
    /\ Init
    /\ cfg.parallel_operations
    /\ cfg.retry_attempts \in {0, MaxRetryAttempts}

\* The steps of a call once it is made.
PoolWork ==
    \/ \E i \in RepoIdx : TaskBegin(i)
    \/ \E i \in RepoIdx : TaskOperation(i)
    \/ \E i \in RepoIdx : TaskStatus(i)
    \/ \E i \in RepoIdx : Collect(i)
    \/ FinishWorkflow

NextPool == StartWorkflow \/ PoolWork

\* While a call has a step it can take, it takes one.
PoolFairness == WF_vars(PoolWork)

SpecPool == InitPool /\ [][NextPool]_vars /\ PoolFairness

\* C17: in a parallel run at most max_workers repository tasks execute at the
\* same time, every submitted task is eventually executed and its outcome
\* taken, and none is executed twice: within a call a task that has left the
\* queue never returns to it.
C17_BoundedConcurrency ==
    /\ [](run.parallel => Cardinality(Busy) <= cfg.max_workers)
    /\ \A i \in RepoIdx :
          (run.parallel /\ tasks[i].st = "queued") ~> (tasks[i].st = "collected")
    /\ [][ \A i \in RepoIdx :
              (tasks[i].st # "queued" /\ tasks'[i].st = "queued") =>
                  nruns' = nruns + 1 ]_vars

\* Three repositories submitted to a pool of two workers: two tasks execute
\* and the third waits in the queue.
C17_Witness ==
    /\ run.parallel
    /\ cfg.max_workers = 2
    /\ Cardinality(Busy) = 2
    /\ \E i \in RepoIdx : tasks[i].st = "queued"

\* ------------------------------------------------- claims about SpecBatch
\* Job k has been taken by the collecting loop.
Taken(k) == batch.jobs[k].st \in {"collected", "collected_raised"}

\* Job k came back from fetch_branch with a successful fetch.
Fetched(k) == batch.jobs[k].st \in {"returned", "collected"} /\ batch.jobs[k].rs.success

\* C18: fetch_all_branches returns one OperationResult per entry of
\* branch_names, counted as a multiset: for every branch name, as many
\* successful results as entries of that name whose fetch succeeded and as
\* many failed results as entries of that name whose fetch failed or whose
\* worker raised.  No target is affected by another: every job that has come
\* back either succeeded or used all its own attempts.
C18_BatchResults ==
    /\ Len(batch.results) = Cardinality({k \in BatchIdx : Taken(k)})
    /\ \A b \in {"main", "dev"} : \A ok \in BOOLEAN :
          Cardinality({n \in 1..Len(batch.results) :
                          /\ batch.results[n].branch_name = b
                          /\ batch.results[n].success = ok})
            = Cardinality({k \in BatchIdx :
                              Taken(k) /\ batch.names[k] = b /\ Fetched(k) = ok})
    /\ \A n \in 1..Len(batch.results) : batch.results[n].operation = "fetch"
    /\ \A k \in BatchIdx :
          batch.jobs[k].st \notin {"queued", "running"} =>
              \/ batch.jobs[k].rs.success
              \/ batch.jobs[k].rs.invocations = batch.attempts

\* A finished batch over main, dev, main on two workers: the worker of dev
\* raised after using its two attempts, both fetches of main succeeded, and
\* there are three results.
C18_Witness ==
    /\ batch.names = <<"main", "dev", "main">>
    /\ batch.workers = 2
    /\ batch.attempts = 2
    /\ \A k \in BatchIdx : Taken(k)
    /\ batch.jobs[2].st = "collected_raised"
    /\ batch.jobs[2].rs.invocations = 2
    /\ Fetched(1) /\ Fetched(3)
    /\ Len(batch.results) = 3

\* The branch reports of the repository tasks, put together in configuration
\* order whatever the order the tasks were collected in.
RECURSIVE InConfigOrder(_)
InConfigOrder(n) ==
    IF n = 0 THEN <<>> ELSE InConfigOrder(n - 1) \o tasks[n].reports

\* C19: aggregation does not depend on the order in which the repository
\* tasks complete: the counters of the returned Report are those computed
\* from the per-repository results taken in configuration order, and its
\* branch reports are those results as a multiset.
C19_OrderIndependent ==
    (Returned /\ run.entry = "execute_workflow") =>
        /\ report.summary =
              create_report(InConfigOrder(Len(Repositories)), errors).summary
        /\ Len(report.branch_reports) = Len(InConfigOrder(Len(Repositories)))
        /\ \A br \in Built :
              Count(report.branch_reports, br) =
                  Count(InConfigOrder(Len(Repositories)), br)

\* A returned parallel run whose tasks were collected in another order than
\* the configured one (the outcome of r3 first), with failed and successful
\* operations among the four branch reports.
C19_Witness ==
    /\ Returned
    /\ run.entry = "execute_workflow"
    /\ run.parallel
    /\ Len(report.branch_reports) = 4
    /\ report.branch_reports[1].repository = "r3"
    /\ report.branch_reports # InConfigOrder(Len(Repositories))
    /\ report.summary.failed_operations >= 1
    /\ report.summary.successful_operations >= 1

\* C20: success_rate is 0 when total_operations is 0 and otherwise
\* successful_operations / total_operations * 100; it is computed without a
\* division by zero, lies between 0 and 100, and, where there are operations,
\* is 100 exactly when none of them failed.
C20_SuccessRate ==
    report # NoReport =>
        LET sm == report.summary
            r  == success_rate(sm)
        IN  /\ r.den > 0
            /\ sm.total_operations = 0 => r.num = 0
            /\ sm.total_operations > 0 =>
                  /\ r.num * sm.total_operations
                        = sm.successful_operations * 100 * r.den
                  /\ (r.num = 100 * r.den) <=> (sm.failed_operations = 0)
            /\ 0 <= r.num
            /\ r.num <= 100 * r.den

\* A returned Report with six of its eight operations successful: the rate
\* is 75.
C20_Witness ==
    /\ Returned
    /\ report # NoReport
    /\ report.summary.total_operations = 8
    /\ report.summary.successful_operations = 6
    /\ success_rate(report.summary).num = 75 * success_rate(report.summary).den

\* The (repository, branch) pairs the current call targets.
TargetedBranches ==
    UNION {{<<i, b>> : b \in Elems(TargetBranches(i, run.bf))} : i \in Targets}

\* Every external invocation of the life of the orchestrator succeeded: every
\* path is a git repository, no command failed or raised, no status query
\* raised.
AllInvocationsSucceeded == cfg.notGit = {} /\ faults = 0

\* C21: when every external invocation succeeds, execute_workflow(operations)
\* in parallel mode over R repositories, for a non-empty list of supported
\* operations and no branch filter, returns a Report with total_operations =
\* (number of targeted branches) x len(operations), successful_operations =
\* total_operations, success_rate = 100, total_branches = number of targeted
\* branches, total_repositories = R and no run-level error.
C21_AllSuccessRun ==
    ( /\ Returned
      /\ run.entry = "execute_workflow"
      /\ run.parallel
      /\ AllInvocationsSucceeded
      /\ run.bf = NoFilter
      /\ run.ops # <<>>
      /\ \A k \in 1..Len(run.ops) : run.ops[k] \in KnownOps ) =>
        /\ report.summary.total_operations =
              Cardinality(TargetedBranches) * Len(run.ops)
        /\ report.summary.successful_operations = report.summary.total_operations
        /\ success_rate(report.summary).num = 100 * success_rate(report.summary).den
        /\ report.summary.total_branches = Cardinality(TargetedBranches)
        /\ report.summary.total_repositories = Len(run.targets)
        /\ report.errors = <<>>

\* What execute_workflow in sequential mode puts in its Report, as a predicate
\* on a returned call: one "No repositories" error when no repository is
\* targeted; one BranchReport for every targeted branch of every targeted git
\* repository, whatever the status query did; one "Repository failed" error
\* and no BranchReport for a targeted path that is no git repository and has
\* a target branch; and no error of any other kind.
WorkflowContract ==
    /\ run.targets = <<>> => ErrorsOfThisCall = <<NoReposError>>
    /\ \A p \in TargetedBranches :
          Cardinality({k \in 1..Len(report.branch_reports) :
                          /\ report.branch_reports[k].repository = Repositories[p[1]].name
                          /\ report.branch_reports[k].branch_name = p[2]})
            = IF is_git_repository(p[1]) THEN 1 ELSE 0
    /\ \A i \in Targets :
          Count(ErrorsOfThisCall, RepoError(i))
            = IF ~is_git_repository(i) /\ TargetBranches(i, run.bf) # <<>>
              THEN 1 ELSE 0
    /\ \A k \in 1..Len(ErrorsOfThisCall) :
          ErrorsOfThisCall[k].kind \in
              {NoReposError.kind, RepoError(1).kind, StatusError("main").kind}

\* C22: custom_workflow(procedure, repositories, branches), for a procedure
\* that runs an operation list in order and returns its results, always
\* returns, and returns a Report that meets the contract of
\* execute_workflow(operations, repositories, branches) in sequential mode,
\* for every outcome of the external tool: empty target resolution, a path
\* that is no git repository, a failing status query.
C22_CustomSameContract ==
    run.entry = "custom_workflow" =>
        /\ run.phase # "escaped"
        /\ Returned => WorkflowContract

\* ------------------------------------------------ claims about SpecWrap
\* The operation names of a result list, in order.
NamesOf(ops) == [k \in 1..Len(ops) |-> ops[k].operation]

\* C23: fetch_all_branches(repositories) is
\* execute_workflow(["fetch"], repositories) and sync_all_branches(repositories)
\* is execute_workflow(["fetch", "pull"], repositories), with no branch filter:
\* the call runs as an execute_workflow call over the repositories the filter
\* resolves to, every branch executes exactly these operations in this order,
\* and the Report returned is the one execute_workflow builds from the
\* outcomes, with every configured branch of every repository that did not
\* raise.
C23_WrappersDelegate ==
    run.via \in {"fetch_all_branches", "sync_all_branches"} =>
        LET ops == IF run.via = "fetch_all_branches"
                   THEN <<"fetch">> ELSE <<"fetch", "pull">>
        IN  /\ run.entry = "execute_workflow"
            /\ run.ops = ops
            /\ run.bf = NoFilter
            /\ run.targets = TargetRepos(run.rf)
            /\ run.parallel = (cfg.parallel_operations /\ Len(run.targets) > 1)
            /\ \A i \in RepoIdx :
                  tasks[i].st = "running" =>
                      NamesOf(tasks[i].opres) = SubSeq(ops, 1, Len(tasks[i].opres))
            /\ \A br \in Reported : NamesOf(br.operations) = ops
            /\ Returned =>
                  /\ report = create_report(run.acc, errors)
                  /\ \A i \in Targets :
                        ~tasks[i].raised =>
                            \A b \in Elems(Repositories[i].branches) :
                                OutcomesOf(i, b) # {}

\* A sync_all_branches call over every repository that has returned, after a
\* fetch_all_branches call: r1's dev branch failed its fetch and then pulled.
C23_Witness ==
    /\ nruns = 2
    /\ Returned
    /\ run.via = "sync_all_branches"
    /\ run.rf = NoFilter
    /\ \E k \in 1..Len(report.branch_reports) :
          LET br == report.branch_reports[k] IN
          /\ br.repository = "r1"
          /\ br.branch_name = "dev"
          /\ NamesOf(br.operations) = <<"fetch", "pull">>
          /\ ~br.operations[1].success
          /\ br.operations[2].success

\* ----------------------------------------------- claims about SpecNames
\* Names the rule set calls invalid: empty, with a whitespace character or
\* one of ~ ^ : ? * [ \ or the sequence "..", with a leading or trailing
\* slash, or ending in ".lock".
Whitespace == {" ", "\t", "\n"}

RuleInvalid(name) ==
    \/ name = <<>>
    \/ \E k \in 1..Len(name) :
          name[k] \in Whitespace \cup {"~", "^", ":", "?", "*", "[", "\\"}
    \/ Contains(name, <<".", ".">>)
    \/ StartsWith(name, <<"/">>)
    \/ EndsWith(name, <<"/">>)
    \/ EndsWith(name, <<".", "l", "o", "c", "k">>)

\* C24: validate_branch_name returns false exactly for the names that are
\* empty, contain whitespace or one of the sequences ~ ^ : ? * [ \ .. , start
\* or end with '/', or end with '.lock', and true for every other name.
C24_ValidationRule ==
    bo.method = "validate_branch_name" =>
        bo.result.success = ~RuleInvalid(bo.name)

\* ------------------------------------------- claims about SpecBranchOps
\* The commands invoked so far, in order.
Commands == [k \in 1..Len(bo.log) |-> bo.log[k].cmd]

\* C25: create_branch with a name that validate_branch_name rejects returns
\* a failed OperationResult with operation "create" for that name and
\* invokes no external command at all.
C25_CreateValidatesFirst ==
    (bo.method = "create_branch" /\ ~validate_branch_name(bo.name)) =>
        /\ bo.pc = "done"
        /\ bo.result = BoResult(FALSE, "create", bo.name)
        /\ bo.log = <<>>

\* create_branch("b..d") has returned.
C25_Witness ==
    /\ bo.method = "create_branch"
    /\ bo.name = <<"b", ".", ".", "d">>
    /\ bo.pc = "done"
    /\ bo.result.kind = "OperationResult"

\* C26: switch_branch with a name that validate_branch_name rejects, with or
\* without create_if_missing, returns a failed OperationResult and invokes
\* no external command, neither the branch listing nor checkout.
C26_SwitchValidatesFirst ==
    (bo.method = "switch_branch" /\ ~validate_branch_name(bo.name)) =>
        /\ bo.pc = "done"
        /\ bo.result.kind = "OperationResult"
        /\ ~bo.result.success
        /\ bo.log = <<>>

\* C27: fetch_branch, pull_branch and push_branch run their command through
\* retry_with_backoff with the configured parameters: at most
\* Config.retry_attempts invocations, and a first backoff delay of
\* Config.retry_delay.
C27_ConfiguredRetry ==
    (bo.method \in {"fetch_branch", "pull_branch", "push_branch"}
        /\ bo.rs.status # "idle") =>
        /\ bo.rs.max = cfg.retry_attempts
        /\ bo.rs.invocations <= cfg.retry_attempts
        /\ Len(bo.rs.sleeps) >= 1 => bo.rs.sleeps[1] = cfg.retry_delay

\* The current branch as rev-parse reported it: known when the command
\* succeeded and printed a name other than HEAD.
HeadKnown == bo.head.asked /\ bo.head.success /\ bo.head.stdout # <<"H", "E", "A", "D">>

\* merge_branch was given a target that is not the current branch.
MustSwitch ==
    /\ bo.target # <<>>
    /\ bo.head.asked
    /\ ~(HeadKnown /\ bo.head.stdout = bo.target)

\* The switch merge_branch asked for did not succeed: the target was not
\* listed, or its checkout failed.
SwitchFailed ==
    \/ bo.exists = "no"
    \/ \E k \in 1..Len(bo.log) : bo.log[k].cmd = "checkout" /\ ~bo.log[k].ok

MergeCommands == {"merge", "rebase", "merge --squash"}

SwitchCommands == {"branch -vv", "checkout", "checkout -b"}

\* C28: merge_branch invokes at most one merge command, as its last
\* command: rebase for strategy rebase, merge --squash for squash, merge
\* otherwise.  When a target is named and differs from the current branch,
\* the branch listing and a successful checkout of switch_branch(target)
\* come before it; if that switch fails no merge command is invoked and the
\* failed switch result is returned.  When the target is the current branch
\* or no target is named, no command of switch_branch is invoked.
C28_MergeOrdering ==
    bo.method = "merge_branch" =>
        /\ \A k \in 1..Len(bo.log) :
              bo.log[k].cmd \in MergeCommands =>
                  /\ k = Len(bo.log)
                  /\ bo.pc = "done"
                  /\ bo.log[k].cmd = IF bo.strategy = "rebase" THEN "rebase"
                                     ELSE IF bo.strategy = "squash"
                                     THEN "merge --squash"
                                     ELSE "merge"
                  /\ bo.result.kind = "OperationResult"
                  /\ bo.result.success = bo.log[k].ok
                  /\ MustSwitch =>
                        \E i, j \in 1..(k - 1) :
                            /\ i < j
                            /\ bo.log[i].cmd = "branch -vv"
                            /\ bo.log[j].cmd = "checkout"
                            /\ bo.log[j].ok
        /\ (MustSwitch /\ SwitchFailed) =>
              /\ bo.pc = "done"
              /\ bo.result = BoResult(FALSE, "switch", bo.target)
              /\ \A k \in 1..Len(bo.log) : bo.log[k].cmd \notin MergeCommands
        /\ (bo.head.asked /\ ~MustSwitch) =>
              \A k \in 1..Len(bo.log) : bo.log[k].cmd \notin SwitchCommands
        /\ (bo.pc = "done" /\ ~(MustSwitch /\ SwitchFailed)
              /\ (bo.target # <<>> \/ HeadKnown)) =>
              /\ bo.log # <<>>
              /\ bo.log[Len(bo.log)].cmd \in MergeCommands

\* merge_branch("dev", "main", "squash") on a repository whose current branch
\* is dev: listing, checkout of main, then merge --squash, which succeeded.
C28_Witness ==
    /\ bo.method = "merge_branch"
    /\ bo.strategy = "squash"
    /\ bo.target = Main
    /\ bo.head.stdout = Dev
    /\ bo.pc = "done"
    /\ bo.result.success
    /\ Commands = <<"rev-parse", "branch -vv", "rev-parse", "checkout", "merge --squash">>

\* C29: when rev-parse cannot tell the current branch (it fails, or HEAD is
\* detached) and the caller named no branch, pull_branch, push_branch and
\* merge_branch return a failed OperationResult of their own operation at
\* once: rev-parse is the only command invoked and retry_with_backoff is
\* never entered.
C29_DetachedHeadFails ==
    ( /\ \/ bo.method \in {"pull_branch", "push_branch"} /\ bo.name = <<>>
         \/ bo.method = "merge_branch" /\ bo.target = <<>>
      /\ bo.head.asked
      /\ ~HeadKnown ) =>
        /\ bo.pc = "done"
        /\ bo.result.kind = "OperationResult"
        /\ ~bo.result.success
        /\ bo.result.operation = CASE bo.method = "pull_branch" -> "pull"
                                   [] bo.method = "push_branch" -> "push"
                                   [] OTHER -> "merge"
        /\ Commands = <<"rev-parse">>
        /\ bo.rs = IdleRetry

\* push_branch() on a detached HEAD has returned.
C29_Witness ==
    /\ bo.method = "push_branch"
    /\ bo.name = <<>>
    /\ bo.head.success
    /\ bo.head.stdout = DetachedHead
    /\ bo.pc = "done"

\* ----------------------------------------------------- claims about Spec
\* C30: execute_operation_on_branch never raises.  Whatever the operation
\* name and whatever the external command underneath does (succeed, fail,
\* raise), the task goes on; once the operation is over exactly one
\* OperationResult has been added for it, under the operation's name.  An
\* exception underneath and an unsupported name both give success = false
\* with an error text, and an unsupported name makes no invocation (there is
\* no outcome of a command for it to depend on).  Every result recorded has
\* an error text exactly when it failed, and no task raises but for a path
\* that is no git repository, found before any operation.
C30_OperationNeverRaises ==
    /\ \A i \in RepoIdx :
          (run.entry = "execute_workflow" /\ tasks[i].st = "running"
              /\ tasks[i].oi <= Len(run.ops)) =>
              \A out \in IF run.ops[tasks[i].oi] \in KnownOps
                          THEN CommandOutcomes ELSE {"ok"} :
                  LET t   == tasks[i]
                      op  == run.ops[t.oi]
                      nxt == execute_operation_on_branch(t, op, out,
                                                         cfg.retry_attempts)
                      new == nxt.opres[Len(nxt.opres)]
                  IN  /\ nxt.st = "running"
                      /\ nxt.oi \in {t.oi, t.oi + 1}
                      /\ nxt.oi = t.oi =>
                            /\ nxt.opres = t.opres
                            /\ op \in KnownOps
                            /\ out # "ok"
                      /\ nxt.oi = t.oi + 1 =>
                            /\ nxt.opres = Append(t.opres, new)
                            /\ new.operation \in {op, ResultName(op)}
                            /\ new.success => out = "ok"
                            /\ out = "raise" =>
                                  ~new.success /\ new.error = "str(e)"
                            /\ op \notin KnownOps =>
                                  /\ ~new.success
                                  /\ new.error = "not supported"
                                  /\ new.attempts = 0
    /\ \A i \in RepoIdx : \A k \in 1..Len(tasks[i].opres) :
          tasks[i].opres[k].success = (tasks[i].opres[k].error = "none")
    /\ run.entry = "execute_workflow" =>
          \A i \in RepoIdx :
              tasks[i].st = "raised" => ~is_git_repository(i)

\* A fetch whose last attempt raised, recorded as a failed result with the
\* exception text after two invocations, the pull after it about to start.
C30_Witness ==
    \E i \in RepoIdx :
        /\ run.entry = "execute_workflow"
        /\ tasks[i].st = "running"
        /\ tasks[i].oi = 2
        /\ tasks[i].opres =
              << [operation |-> "fetch", success |-> FALSE, attempts |-> 2,
                  error |-> "str(e)"] >>

InvalidConfig ==
    \/ cfg.repositories = <<>>
    \/ \E k \in 1..Len(cfg.repositories) :
          Repositories[cfg.repositories[k]].path \in cfg.missing
    \/ cfg.max_workers < 1
    \/ cfg.retry_attempts < 0

\* C32: constructing MultibranchOrchestrator with an empty repository list,
\* a repository path that does not exist, max_workers < 1 or a negative
\* retry_attempts raises a configuration error: no entry point is ever
\* called, no repository task exists and no external command is run under
\* such a configuration.  Only the constructor has acted.
C32_ValidatedBeforeWork ==
    InvalidConfig =>
        /\ run.phase \in {"unconstructed", "ValueError"}
        /\ run.entry = "none"
        /\ nruns = 0
        /\ faults = 0
        /\ \A i \in RepoIdx : tasks[i] = IdleTask
        /\ report = NoReport
        /\ errors = <<>>

\* The constructor has refused a configuration whose only defect is
\* max_workers = 0.
C32_Witness ==
    /\ run.phase = "ValueError"
    /\ cfg.max_workers = 0
    /\ cfg.repositories = AllRepos
    /\ cfg.missing = {}
    /\ cfg.retry_attempts = 1

\* ---------------------------------------------------- claims about SpecRun
\* C33: every run terminates.  Each retry loop stops after at most
\* max_attempts (= retry_attempts) invocations, and every call of
\* execute_workflow or custom_workflow that has started eventually reaches
\* DONE and returns its Report, whatever the targets, the operation list and
\* the failures.
C33_RunTerminates ==
    /\ [](\A i \in RepoIdx : tasks[i].rs.invocations <= cfg.retry_attempts)
    /\ (run.phase = "running") ~> (run.phase = "returned")

\* ------------------------------------------------ claims about Spec (C34)
\* The repository tasks of the run that are neither waiting to start nor
\* taken by the collecting loop.
Unsettled == {i \in RepoIdx : tasks[i].st \in {"queued", "running", "returned", "raised"}}

\* This step builds the Report of a run: the run ends by returning.
BuildsReport ==
    /\ run'.phase = "returned"
    /\ run.phase = "running" \/ nruns' = nruns + 1

\* C34: a run goes through START, RESOLVE_TARGETS, DISPATCH, COLLECT,
\* AGGREGATE, DONE in that order.  Its Report is created exactly once, there
\* is none while the run is dispatching or collecting, the step that creates
\* it finds every dispatched repository task completed and collected, and
\* once the Report exists no task of the run executes, starts or changes
\* until the next call.
C34_ReportAfterCollection ==
    /\ [](run.phase = "running" => report = NoReport)
    /\ [](run.phase = "returned" => report # NoReport /\ Unsettled = {})
    /\ [][ BuildsReport =>
             /\ \A k \in 1..Len(run'.targets) :
                   tasks[run'.targets[k]].st = "collected" /\ nruns' = nruns
             /\ tasks' = tasks \/ run'.targets = <<>> ]_vars
    /\ [][ (run.phase = "returned" /\ nruns' = nruns) =>
             (report' = report /\ tasks' = tasks /\ run' = run) ]_vars
    /\ [][ report' # report =>
             \/ BuildsReport
             \/ (report' = NoReport /\ nruns' = nruns + 1) ]_vars

\* A parallel execute_workflow has returned its Report after collecting one
\* task that raised and two that returned branch reports.
C34_Witness ==
    /\ run.phase = "returned"
    /\ run.entry = "execute_workflow"
    /\ run.parallel
    /\ Len(run.targets) = 3
    /\ \E i \in RepoIdx : tasks[i].raised
    /\ Len(report.branch_reports) >= 2

\* ------------------------------------------------- claims about SpecReport
\* The (repository, branch) pairs and the repositories with a branch report.
ReportedPairs(brs) == {<<brs[k].repository, brs[k].branch_name>> : k \in 1..Len(brs)}
ReportedRepositories(brs) == {brs[k].repository : k \in 1..Len(brs)}

\* C35: in every Report, total_branches is the number of distinct
\* (repository, branch) targets that have a branch report and
\* total_repositories the number of distinct repositories with at least one
\* branch report, so that total_repositories is at most the number of
\* targeted repositories and at most total_branches.
C35_DistinctCounts ==
    (run.phase = "returned") =>
        /\ report.summary.total_branches =
              Cardinality(ReportedPairs(report.branch_reports))
        /\ report.summary.total_repositories =
              Cardinality(ReportedRepositories(report.branch_reports))
        /\ report.summary.total_repositories <= Len(run.targets)
        /\ report.summary.total_repositories <= report.summary.total_branches

\* ------------------------------------------------ claims about Spec (C36)
\* The branch reports of repository i in the Report, in Report order.
ReportsOf(i) ==
    SelectSeq(report.branch_reports,
              LAMBDA br : br.repository = Repositories[i].name)

\* The configured branches of repository i that the branch filter of the
\* call lets through, in configuration order.
ResolvedBranches(i) ==
    SelectSeq(Repositories[i].branches,
              LAMBDA b : (run.bf.given /\ run.bf.names # {}) => b \in run.bf.names)

\* C36: for every targeted repository whose task completed without raising,
\* the Report of execute_workflow holds exactly one BranchReport per resolved
\* target branch of that repository, in configuration order; and the status
\* query of a branch, which ends with its BranchReport, runs only when every
\* requested operation of that branch has its result and none is in flight.
C36_OneReportPerBranch ==
    /\ []( (run.phase = "returned" /\ run.entry = "execute_workflow") =>
            \A k \in 1..Len(run.targets) :
                ~tasks[run.targets[k]].raised =>
                    [j \in 1..Len(ReportsOf(run.targets[k])) |->
                        ReportsOf(run.targets[k])[j].branch_name]
                    = ResolvedBranches(run.targets[k]) )
    /\ [][ \A i \in RepoIdx :
             (run.entry = "execute_workflow"
              /\ Len(tasks'[i].reports) > Len(tasks[i].reports)) =>
                /\ Len(tasks[i].opres) = Len(run.ops)
                /\ tasks[i].rs = IdleRetry
                /\ tasks'[i].reports[Len(tasks'[i].reports)].operations
                      = tasks[i].opres ]_vars

\* A Report of execute_workflow(["fetch", "pull"]) over all repositories with
\* the two branches of r1 in configuration order, each with its two results.
C36_Witness ==
    /\ run.phase = "returned"
    /\ run.entry = "execute_workflow"
    /\ run.bf = NoFilter
    /\ Len(run.ops) = 2
    /\ Len(ReportsOf(1)) = 2
    /\ ReportsOf(1)[1].branch_name = "main"
    /\ ReportsOf(1)[2].branch_name = "dev"
    /\ Len(ReportsOf(1)[2].operations) = 2
    /\ Len(report.branch_reports) = 4

\* ------------------------------------------------ claims about Spec (C37)
\* C37: in execute_workflow, when the status query of a branch raises (the
\* step that adds "Failed to get status for <branch>" to the errors), the
\* BranchReport of that branch is produced all the same, with every
\* operation result of the branch, an empty status and the success flag the
\* operations alone give it; that one error string is all the step adds; and
\* the task goes on to the next branch of the repository, or returns after
\* the last one.
C37_StatusFailureKeepsOutcomes ==
    [][ \A i \in RepoIdx : \A b \in {"main", "dev"} :
          ( /\ run.entry = "execute_workflow"
            /\ tasks'[i] # tasks[i]
            /\ errors' = Append(errors, StatusError(b)) ) =>
              LET t  == tasks[i]
                  n  == Len(tasks'[i].reports)
                  br == tasks'[i].reports[n]
              IN  /\ n = Len(t.reports) + 1
                  /\ b = ResolvedBranches(i)[t.bi]
                  /\ br.branch_name = b
                  /\ br.repository = Repositories[i].name
                  /\ br.operations = t.opres
                  /\ Len(t.opres) = Len(run.ops)
                  /\ br.status = "empty"
                  /\ br.success = (\A k \in 1..Len(t.opres) : t.opres[k].success)
                  /\ \A k \in 1..Len(t.reports) : tasks'[i].reports[k] = t.reports[k]
                  /\ IF t.bi < Len(ResolvedBranches(i))
                     THEN tasks'[i].st = "running" /\ tasks'[i].bi = t.bi + 1
                          /\ tasks'[i].oi = 1 /\ tasks'[i].opres = <<>>
                     ELSE tasks'[i].st = "returned" ]_vars

\* A first Report in which the status query of r1's main raised after both
\* of its operations succeeded: main is reported successful with two results
\* and an empty status, dev is reported after it with its status, and the
\* errors hold the one string.
C37_Witness ==
    /\ run.phase = "returned"
    /\ run.entry = "execute_workflow"
    /\ nruns = 1
    /\ report.errors = <<StatusError("main")>>
    /\ Len(ReportsOf(1)) = 2
    /\ ReportsOf(1)[1].branch_name = "main"
    /\ ReportsOf(1)[1].status = "empty"
    /\ ReportsOf(1)[1].success
    /\ Len(ReportsOf(1)[1].operations) = 2
    /\ ReportsOf(1)[2].branch_name = "dev"
    /\ ReportsOf(1)[2].status = "status"

\* ------------------------------------------------ claims about Spec (C38)
\* C38: for every retry_attempts validation accepts (0 included), a fetch,
\* pull or push dispatched by the orchestrator invokes its command at least
\* once, and the success of its OperationResult is the success of the last
\* invocation.  The step that appends the result of such an operation is the
\* step of its last invocation, which succeeded exactly when the step counts
\* no new fault.
C38_InvokedAtLeastOnce ==
    [][ \A i \in RepoIdx :
          ( /\ run.phase = "running"
            /\ tasks[i].st = "running"
            /\ Len(tasks'[i].opres) = Len(tasks[i].opres) + 1
            /\ run.ops[tasks[i].oi] \in RetryOps ) =>
              LET r == tasks'[i].opres[Len(tasks'[i].opres)]
              IN  /\ r.attempts >= 1
                  /\ r.success <=> (faults' = faults) ]_vars

\* ------------------------------------------------ claims about SpecTargets
\* The filter is absent or the empty list.
Unfiltered(f) == ~f.given \/ f.names = {}

\* The repositories and, in repository i, the branches that the filters of
\* the call name (all of them when the filter is absent or empty).
NamedRepositories ==
    {i \in RepoIdx : Unfiltered(run.rf) \/ Repositories[i].name \in run.rf.names}
NamedBranches(i) ==
    {b \in Elems(Repositories[i].branches) : Unfiltered(run.bf) \/ b \in run.bf.names}

\* C39: a repository is targeted exactly when the repository filter names it
\* and a branch exactly when the branch filter names it; an absent filter and
\* an empty one select everything configured; a name that matches nothing
\* selects nothing.  The targets keep the configuration order; a repository
\* that is not targeted, or has no targeted branch, never leaves the queue
\* for an operation; no operation result and no branch report exists for a
\* branch that is not targeted; and in the returned Report every targeted
\* branch has its branch report.
C39_FilterResolution ==
    (run.phase \in {"running", "returned"}) =>
        /\ Elems(run.targets) = NamedRepositories
        /\ \A j, k \in 1..Len(run.targets) : j < k => run.targets[j] < run.targets[k]
        /\ \A i \in RepoIdx :
              /\ (i \notin NamedRepositories) => tasks[i] = IdleTask
              /\ (NamedBranches(i) = {}) =>
                    (tasks[i].opres = <<>> /\ tasks[i].reports = <<>>
                     /\ tasks[i].st # "running")
              /\ \A k \in 1..Len(tasks[i].reports) :
                    tasks[i].reports[k].branch_name \in NamedBranches(i)
              /\ (tasks[i].st = "running") =>
                    tasks[i].bi <= Cardinality(NamedBranches(i))
        /\ (run.phase = "returned") =>
              /\ \A k \in 1..Len(report.branch_reports) :
                    \E i \in NamedRepositories :
                        /\ report.branch_reports[k].repository = Repositories[i].name
                        /\ report.branch_reports[k].branch_name \in NamedBranches(i)
              /\ \A i \in NamedRepositories : \A b \in NamedBranches(i) :
                    tasks[i].raised \/ \E k \in 1..Len(report.branch_reports) :
                        /\ report.branch_reports[k].repository = Repositories[i].name
                        /\ report.branch_reports[k].branch_name = b

\* A call with the empty list as repository filter and a branch filter
\* naming dev and an unknown branch has returned: all three repositories
\* were targeted and the Report holds the one branch report of r1's dev.
C39_Witness ==
    /\ run.phase = "returned"
    /\ run.rf = Only({})
    /\ run.bf = Only({"dev", "zz"})
    /\ Len(run.targets) = 3
    /\ Len(report.branch_reports) = 1
    /\ report.branch_reports[1].repository = "r1"
    /\ report.branch_reports[1].branch_name = "dev"
    /\ Len(report.branch_reports[1].operations) = 1

====
